---- MODULE Spec2Model ----
(***************************************************************************)
(* VunshDB-lite: the schema-bound model (src/ctrlr) over one collection    *)
(* file.  A collection file holds a JSON array of documents; every model   *)
(* operation reads the whole file, works on the parsed array and, when it  *)
(* mutates, writes the whole array back.                                   *)
(*                                                                         *)
(* JavaScript values are modelled as tokens (strings); a document is a     *)
(* function from the keys it owns to tokens, so that `key in doc` is       *)
(* `key \in DOMAIN doc` and a missing key reads as Undefined.              *)
(***************************************************************************)
EXTENDS Integers, Sequences, FiniteSets, TLC

\* ---------------------------------------------------------------- bounds
\* stored documents the model lets a collection grow to
MaxDocs == 3
\* generated identifiers that can be in use at once
MaxUuid == 4
\* calls of connect in one process
MaxConnects == 2
\* seconds the model lets pass after a connect
MaxSeconds == 2

\* ------------------------------------------------------ JavaScript values
Undefined == "undefined"
Null == "null"
False == "false"
True == "true"
EmptyString == ""
\* the constructors a schema uses as primitive type markers
StringCtor == "fn:String"
NumberCtor == "fn:Number"
BooleanCtor == "fn:Boolean"
ArrayCtor == "fn:Array"
ObjectCtor == "fn:Object"
\* the closure create/findOne attach to a returned document
SaveFn == "fn:save"

Functions == {StringCtor, NumberCtor, BooleanCtor, ArrayCtor, ObjectCtor, SaveFn}
Numbers == {"n25", "n26"}
Booleans == {True, False}

\* -------------------------------------------------------------- identifiers
UuidPool == <<"vdb:1", "vdb:2", "vdb:3", "vdb:4", "vdb:5", "vdb:6", "vdb:7", "vdb:8">>

\* ----------------------------------------------------------- nested values
\* a value that is an object is a token as well; OwnFields gives its content.
\* The objects of the model: two a caller passes for the field `tag`, the
\* object applyDefaults builds for a missing `tag`, and what JSON keeps of it
TagOk == "obj:{trigger,content}"
TagExtra == "obj:{trigger,bogus}"
TagDefault(uuid) == "obj:{trigger:String,content:String,_id}:" \o uuid
TagStored(uuid) == "obj:{_id}:" \o uuid
\* the empty array applyDefaults gives a missing sequence field
EmptyArray == "arr:[]"

PoolIds == {UuidPool[i] : i \in 1..Len(UuidPool)}
TagDefaults == {TagDefault(u) : u \in PoolIds}
TagsStored == {TagStored(u) : u \in PoolIds}
ObjectValues == {TagOk, TagExtra} \cup TagDefaults \cup TagsStored

\* the own enumerable fields of an object value
OwnFields(v) ==
    IF v = TagOk THEN [trigger |-> "hi", content |-> "there"]
    ELSE IF v = TagExtra THEN [trigger |-> "hi", bogus |-> "x"]
    ELSE IF v \in TagDefaults
    THEN LET u == CHOOSE w \in PoolIds : v = TagDefault(w)
         IN  [trigger |-> StringCtor, content |-> StringCtor, _id |-> u]
    ELSE IF v \in TagsStored
    THEN LET u == CHOOSE w \in PoolIds : v = TagStored(w)
         IN  [_id |-> u]
    ELSE << >>

\* the object value with the given fields
TokenOf(obj) == CHOOSE v \in ObjectValues : OwnFields(v) = obj

\* typeof v
typeOf(v) ==
    IF v = Undefined THEN "undefined"
    ELSE IF v \in Functions THEN "function"
    ELSE IF v \in Numbers THEN "number"
    ELSE IF v \in Booleans THEN "boolean"
    ELSE IF v = Null \/ v = EmptyArray \/ v \in ObjectValues THEN "object"
    ELSE "string"

\* Array.isArray(v)
isArray(v) == v = EmptyArray

\* obj[key]: a key the object does not own reads as undefined
Get(obj, key) == IF key \in DOMAIN obj THEN obj[key] ELSE Undefined

\* the document without one key (delete obj[key])
Without(obj, key) == [k \in DOMAIN obj \ {key} |-> obj[k]]

\* obj[key] = value on an object
With(obj, key, value) == (key :> value) @@ obj

\* !isNaN(Number(field)): keys that read as numbers
NumericKeys == {"0", "1"}

\* what `for (field in v)` enumerates, with v[field]: the fields of an object,
\* the indices of a non-empty string, nothing for the other values
forIn(v) ==
    IF v \in ObjectValues THEN OwnFields(v)
    ELSE IF typeOf(v) = "string" /\ v # EmptyString THEN [i \in NumericKeys |-> "c"]
    ELSE << >>

\* JSON.parse(JSON.stringify(doc)): keys holding undefined or a function are
\* dropped, in the document and in the objects it holds
Serialize(doc) ==
    LET kept(obj) == {x \in DOMAIN obj : typeOf(obj[x]) \notin {"undefined", "function"}}
    IN  [k \in kept(doc) |->
            IF doc[k] \in ObjectValues
            THEN TokenOf([x \in kept(OwnFields(doc[k])) |-> OwnFields(doc[k])[x]])
            ELSE doc[k]]

NoDoc == << >>

\* ----------------------------------------------------------------- state
VARIABLES
    schemaDefinition,   \* the schema the model is bound to
    fileExists,         \* whether the collection file exists
    file,               \* the parsed content of the collection file
    held,               \* the document the caller holds, with its save (NoDoc: none)
    last,               \* the last operation: its arguments, result, and the content before it
    created,            \* the document returned by create, while create is the last operation
    flow,               \* progress of the find / edit / save sequence
    calls,              \* the create calls in flight, one per concurrent caller
    cltns,              \* the four built-in collections (src/cltns/*.json)
    ops,                \* the model operations invoked, one per concurrent caller
    queue,              \* the suspended continuations, in the order they resume
    proc,               \* the process: running or terminated, its unhandled rejections
    timer,              \* the intervals connect has started, and the seconds elapsed
    candidate,          \* the string last handed to isUUID, and what isUUID returned
    dbs,                \* the collection files of the models bound by name
    handles,            \* the documents the callers hold, each with its save
    wellFormed          \* whether the content of the collection file parses as JSON,
                        \* now and when the last operation read it

vars ==
    <<schemaDefinition, fileExists, file, held, last, created, flow, calls,
      cltns, ops, queue, proc, timer, candidate, dbs, handles, wellFormed>>

\* the state of the built-in collections and of the process around the model
builtin == <<cltns, ops, queue, proc, timer>>

\* the state only the specifications further down move
apart == <<candidate, dbs, handles, wellFormed>>

\* the identifiers a document carries, its own and those of the objects it holds
IdsOf(doc) ==
    {Get(doc, "_id")}
    \cup {Get(OwnFields(doc[k]), "_id") : k \in {x \in DOMAIN doc : doc[x] \in ObjectValues}}

\* the generated identifiers some document of the state carries
UsedUuids ==
    LET carried == UNION ({IdsOf(file[j]) : j \in 1..Len(file)}
                          \cup {IdsOf(held), IdsOf(created)}
                          \cup {IdsOf(calls[c].result) : c \in DOMAIN calls})
    IN  {i \in 1..MaxUuid : UuidPool[i] \in carried}

\* the k-th identifier createUUID returns in an operation: a value no document
\* carries (a collision is taken to be impossible), the first such of the pool
createUUID(k) ==
    LET unused == (1..MaxUuid) \ UsedUuids
    IN  UuidPool[CHOOSE i \in unused : Cardinality({j \in unused : j < i}) = k - 1]

\* whether the pool still holds n unused identifiers
CanDraw(n) == Cardinality((1..MaxUuid) \ UsedUuids) >= n

\* ------------------------------------------------------------------ schema
\* a field declaration: a primitive type marker (the constructor itself), a
\* literal (`_id: false`), a detailed descriptor {type, default, required}, a
\* nested schema (a plain mapping of declarations) or a sequence marker ([...])
Marker(ctor) ==
    [kind |-> "marker", value |-> ctor, type |-> Undefined, default |-> Undefined,
     required |-> Undefined, fields |-> << >>]
Literal(v) ==
    [kind |-> "literal", value |-> v, type |-> Undefined, default |-> Undefined,
     required |-> Undefined, fields |-> << >>]
Descriptor(ctor, d) ==
    [kind |-> "descriptor", value |-> "obj:descriptor", type |-> ctor, default |-> d,
     required |-> Undefined, fields |-> << >>]
Required(ctor) == [Descriptor(ctor, Undefined) EXCEPT !.required = True]
Nested(fields) ==
    [kind |-> "nested", value |-> "obj:schema", type |-> Undefined, default |-> Undefined,
     required |-> Undefined, fields |-> fields]
SequenceOf(ctor) ==
    [kind |-> "sequence", value |-> "arr:schema", type |-> Undefined, default |-> Undefined,
     required |-> Undefined, fields |-> << >>]

\* new Schema({username: String, age: Number})
SchemaNoId == [username |-> Marker(StringCtor), age |-> Marker(NumberCtor)]
\* new Schema({_id: false, username: String, age: Number})
SchemaIdFalse == ("_id" :> Literal(False)) @@ SchemaNoId
\* new Schema({_id: String, username: String, age: Number})
SchemaIdDeclared == ("_id" :> Marker(StringCtor)) @@ SchemaNoId

Schemas == {SchemaNoId, SchemaIdFalse, SchemaIdDeclared}

\* new Schema({username: String, age: {type: Number, required: true}})
SchemaRequired == [username |-> Marker(StringCtor), age |-> Required(NumberCtor)]
\* the nested schema {trigger: String, content: String}
TagFields == [trigger |-> Marker(StringCtor), content |-> Marker(StringCtor)]
\* new Schema({username: String, age: Number, tag: {trigger: String, content: String}})
SchemaNested == ("tag" :> Nested(TagFields)) @@ SchemaNoId
\* new Schema({username: String, age: {type: Number, default: 25}, tags: [String]})
SchemaDefaults ==
    [username |-> Marker(StringCtor), age |-> Descriptor(NumberCtor, "n25"),
     tags |-> SequenceOf(StringCtor)]

\* new Schema({username: {type: String}, active: {type: Boolean}, meta: {type: Object}})
SchemaDescriptors ==
    [username |-> Descriptor(StringCtor, Undefined),
     active |-> Descriptor(BooleanCtor, Undefined),
     meta |-> Descriptor(ObjectCtor, Undefined)]

RichSchemas == Schemas \cup {SchemaRequired, SchemaNested, SchemaDefaults, SchemaDescriptors}

\* the order in which `for (field in schema)` visits the declared fields
DeclarationOrder ==
    <<"_id", "username", "age", "active", "meta", "tag", "tags", "trigger", "content">>
Position(field) == CHOOSE i \in 1..Len(DeclarationOrder) : DeclarationOrder[i] = field

\* typeof fieldDefinition === "object" && !Array.isArray(fieldDefinition)
\*     && !(fieldDefinition instanceof Function)
isPlainObject(fieldDefinition) == fieldDefinition.kind \in {"descriptor", "nested"}

\* a declaration that is a plain object, read as the schema validate recurses
\* into: a nested schema as it is, a descriptor as the mapping of its own keys
AsSchema(fieldDefinition) ==
    IF fieldDefinition.kind = "nested" THEN fieldDefinition.fields
    ELSE [k \in {"type"}
            \cup (IF fieldDefinition.default # Undefined THEN {"default"} ELSE {})
            \cup (IF fieldDefinition.required # Undefined THEN {"required"} ELSE {})
          |-> IF k = "type" THEN Marker(fieldDefinition.type)
              ELSE IF k = "default" THEN Literal(fieldDefinition.default)
              ELSE Literal(fieldDefinition.required)]

\* the declared fields for which applyDefaults recurses into a nested schema:
\* those the data leaves undefined and whose declaration is a nested schema
missingNested(data, schema) ==
    {field \in DOMAIN schema :
        /\ Get(data, field) = Undefined
        /\ schema[field].type = Undefined
        /\ schema[field].kind = "nested"}

\* how many identifiers applyDefaults(data) draws: one for each nested default
\* (a nested schema of the model declares no nested schema itself) and one for
\* the document when the data has no `_id`
DefaultsDrawUuid(data, schema) ==
    Cardinality(missingNested(data, schema)) + (IF "_id" \notin DOMAIN data THEN 1 ELSE 0)

RECURSIVE applyDefaults(_, _, _)
RECURSIVE DefaultFor(_, _)

\* DefaultFor giving null where a descriptor names no default, whatever its type
DefaultForNull(fieldDefinition, k) ==
    IF fieldDefinition.type # Undefined
    THEN IF fieldDefinition.default # Undefined THEN fieldDefinition.default
         ELSE Null
    ELSE IF fieldDefinition.kind = "nested"
    THEN TokenOf(applyDefaults(NoDoc, fieldDefinition.fields, k))
    ELSE IF fieldDefinition.kind = "sequence" THEN EmptyArray
    ELSE fieldDefinition.value

\* the value applyDefaults gives a declared field the data leaves undefined;
\* k identifiers have been drawn before in the operation
DefaultFor(fieldDefinition, k) ==
    IF fieldDefinition.type # Undefined
    THEN IF fieldDefinition.default # Undefined THEN fieldDefinition.default
         ELSE IF fieldDefinition.type = BooleanCtor THEN False
         ELSE IF fieldDefinition.type = StringCtor THEN EmptyString
         ELSE Null
    ELSE IF fieldDefinition.kind = "nested"
    THEN TokenOf(applyDefaults(NoDoc, fieldDefinition.fields, k))
    ELSE IF fieldDefinition.kind = "sequence" THEN EmptyArray
    ELSE fieldDefinition.value

\* Schema.applyDefaults(data, schema); k identifiers have been drawn before in
\* the operation, and createUUID is called in the order of the source: for the
\* nested defaults in declaration order, then for the document
applyDefaults(data, schema, k) ==
    LET nested == missingNested(data, schema)
        before(field) == Cardinality({g \in nested : Position(g) < Position(field)})
        defaultData ==
            [field \in DOMAIN schema |->
                IF Get(data, field) # Undefined THEN data[field]
                ELSE DefaultFor(schema[field], k + before(field))]
    IN  IF "_id" \notin DOMAIN data
        THEN With(defaultData, "_id", createUUID(k + Cardinality(nested) + 1))
        ELSE defaultData

\* the type test of validate: TRUE when it throws "Invalid type"
InvalidType(fieldType, v) ==
    /\ fieldType # BooleanCtor /\ typeOf(v) # "boolean"
    /\ fieldType # StringCtor /\ typeOf(v) # "string"
    /\ fieldType # ArrayCtor /\ ~isArray(v)
    /\ fieldType # ObjectCtor /\ typeOf(v) # "object"
    /\ fieldType # NumberCtor /\ typeOf(v) # "number"
    /\ typeOf(fieldType) = "function" /\ typeOf(v) = "function"

\* validate that also rejects a document lacking a field marked required
RECURSIVE validateThrowsWhenRequiredMissing(_, _)
validateThrowsWhenRequiredMissing(data, schema) ==
    \/ \E field \in DOMAIN schema :
            schema[field].required = True /\ Get(data, field) = Undefined
    \/ \E field \in DOMAIN data :
        /\ field # "_id"
        /\ field \notin NumericKeys
        /\ \/ field \notin DOMAIN schema
           \/ /\ data[field] # Undefined
              /\ IF isPlainObject(schema[field])
                 THEN validateThrowsWhenRequiredMissing(forIn(data[field]),
                                                        AsSchema(schema[field]))
                 ELSE InvalidType(schema[field].value, data[field])

\* validate that does not go into the value of a nested declaration
validateThrowsAtTopLevel(data, schema) ==
    \E field \in DOMAIN data :
        /\ field # "_id"
        /\ field \notin NumericKeys
        /\ \/ field \notin DOMAIN schema
           \/ /\ data[field] # Undefined
              /\ ~isPlainObject(schema[field])
              /\ InvalidType(schema[field].value, data[field])

\* Schema.validate(data, schema): TRUE when it throws.  A declaration that is
\* a plain object (a nested schema, and a descriptor as well) sends validate
\* into the value, read through `for ... in`; any other declaration is put to
\* the type test, with fieldType = fieldDefinition?.type || fieldDefinition
RECURSIVE validateThrows(_, _)
validateThrows(data, schema) ==
    \E field \in DOMAIN data :
        /\ field # "_id"
        /\ field \notin NumericKeys
        /\ \/ field \notin DOMAIN schema
           \/ /\ data[field] # Undefined
              /\ IF isPlainObject(schema[field])
                 THEN validateThrows(forIn(data[field]), AsSchema(schema[field]))
                 ELSE InvalidType(schema[field].value, data[field])

\* ------------------------------------------------------------- predicates
\* what a caller passes to find / delete: a field map, or a boolean function
FieldMap(m) == [kind |-> "map", name |-> "-", map |-> m]
Predicate(name) == [kind |-> "function", name |-> name, map |-> NoDoc]
NoCriteria == [kind |-> "none", name |-> "-", map |-> NoDoc]

\* what the caller's function returns for a document
Call(criteria, doc) ==
    IF criteria.name = "isJohnDoe" THEN Get(doc, "username") = "JohnDoe"
    ELSE IF criteria.name = "isAge26" THEN Get(doc, "age") = "n26"
    ELSE FALSE

\* Object.keys(criteria): a function owns no enumerable keys
ObjectKeys(criteria) == IF criteria.kind = "function" THEN {} ELSE DOMAIN criteria.map

\* matches with `some` in place of `every`
matchesSome(doc, criteria) ==
    \E key \in ObjectKeys(criteria) : Get(doc, key) = Get(criteria.map, key)

\* Object.keys(criteria).every(key => doc[key] === criteria[key])
matches(doc, criteria) ==
    \A key \in ObjectKeys(criteria) : Get(doc, key) = Get(criteria.map, key)

\* findIndex taking the last match instead of the first
findLastIndex(db, criteria) ==
    IF \E i \in 1..Len(db) : matches(db[i], criteria)
    THEN CHOOSE i \in 1..Len(db) :
            /\ matches(db[i], criteria)
            /\ \A j \in (i + 1)..Len(db) : ~matches(db[j], criteria)
    ELSE 0

\* db.findIndex(doc => matches(doc, criteria)), 1-based; 0 stands for -1
findIndex(db, criteria) ==
    IF \E i \in 1..Len(db) : matches(db[i], criteria)
    THEN CHOOSE i \in 1..Len(db) :
            /\ matches(db[i], criteria)
            /\ \A j \in 1..(i - 1) : ~matches(db[j], criteria)
    ELSE 0

\* db.filter(keep), for keep given as the set of kept positions
RECURSIVE filterAt(_, _, _)
filterAt(db, keep, i) ==
    IF i > Len(db) THEN << >>
    ELSE IF i \in keep THEN <<db[i]>> \o filterAt(db, keep, i + 1)
    ELSE filterAt(db, keep, i + 1)

\* db.splice(index, 1)
splice(db, index) == SubSeq(db, 1, index - 1) \o SubSeq(db, index + 1, Len(db))

\* a lookup that matches nothing when the saved document has no _id
findIndexByIdDefined(db, data) ==
    IF Get(data, "_id") = Undefined THEN 0
    ELSE findIndex(db, FieldMap([_id |-> Get(data, "_id")]))

\* db.findIndex(doc => doc._id === data._id), 1-based; 0 stands for -1
findIndexById(db, data) == findIndex(db, FieldMap([_id |-> Get(data, "_id")]))

\* the key test of save looping over the schema's keys instead of the document's
saveThrowsOverSchemaKeys(data, schema) ==
    \E key \in DOMAIN schema :
        /\ key # "_id"
        /\ key # "__originalId"
        /\ typeOf(Get(data, key)) # "function"
        /\ key \notin DOMAIN schema

\* the key test of save: TRUE when save throws "is not defined in the schema"
saveThrows(data, schema) ==
    \E key \in DOMAIN data :
        /\ key # "_id"
        /\ key # "__originalId"
        /\ typeOf(data[key]) # "function"
        /\ key \notin DOMAIN schema

\* save that leaves a stored document with the _id as it is
saveIntoKeepsStored(db, data) ==
    IF findIndexById(db, data) = 0 THEN Append(db, Serialize(data)) ELSE db

\* save that pushes without looking the _id up
saveIntoAlwaysPush(db, data) == Append(db, Serialize(data))

\* the array save writes: replace where the _id is found, else push
saveInto(db, data) ==
    LET index == findIndexById(db, data)
    IN  IF index = 0 THEN Append(db, Serialize(data))
        ELSE [db EXCEPT ![index] = Serialize(data)]

\* the identifier step of create, after applyDefaults and validate
createId(newData, schema, uuid) ==
    IF "_id" \notin DOMAIN schema THEN With(newData, "_id", uuid)
    ELSE IF schema["_id"].kind = "literal" /\ schema["_id"].value = False
         THEN Without(newData, "_id")
    ELSE IF Get(newData, "_id") = Undefined THEN With(newData, "_id", uuid)
    ELSE newData

\* whether that step calls createUUID
CreateIdDrawsUuid(newData, schema) ==
    IF "_id" \notin DOMAIN schema THEN 1
    ELSE IF schema["_id"].kind = "literal" /\ schema["_id"].value = False THEN 0
    ELSE IF Get(newData, "_id") = Undefined THEN 1
    ELSE 0

\* getDbFile writing [] into the file whether it exists or not
readDbRecreated == << >>

\* JSON.parse(fs.readFileSync(filePath)) after getDbFile, which creates a
\* missing file holding []
readDb == IF fileExists THEN file ELSE << >>

\* ------------------------------------------------------------ the inputs
\* the data a caller passes to create
CreateInputs ==
    {[username |-> "JohnDoe", age |-> "n25"],
     [_id |-> "custom", username |-> "JohnDoe", age |-> "n25"]}

\* the data a caller passes to create under the richer schemas: complete, with
\* a declared field left out, with `_id` given as undefined, with a custom
\* `_id`, with a nested object, with a nested object holding an undeclared
\* field, with a field no schema declares, and with an object for `meta`
RichCreateInputs ==
    {[username |-> "JohnDoe", age |-> "n25"],
     [username |-> "JohnDoe"],
     [_id |-> Undefined, username |-> "JohnDoe", age |-> "n25"],
     [_id |-> "custom", username |-> "JohnDoe", age |-> "n25"],
     [username |-> "JohnDoe", age |-> "n25", tag |-> TagOk],
     [username |-> "JohnDoe", age |-> "n25", tag |-> TagExtra],
     [username |-> "JohnDoe", age |-> "n25", nickname |-> "jd"],
     [username |-> "JohnDoe", meta |-> TagOk]}

\* the documents a caller passes to Schema.validate: those, and documents with
\* values of another type than declared, an undeclared field, an integer-like
\* key, and a declared field given as undefined
ValidateInputs ==
    RichCreateInputs
    \cup {[username |-> "n25", age |-> "JohnDoe"],
          [username |-> "JohnDoe", age |-> True],
          [username |-> "JohnDoe", nickname |-> "jd"],
          [username |-> "JohnDoe", nickname |-> Undefined],
          ("0" :> "x") @@ [_id |-> "custom", username |-> "JohnDoe"],
          [username |-> "JohnDoe", age |-> Undefined],
          [username |-> "JohnDoe", age |-> TagOk]}

\* the documents a caller passes to Schema.applyDefaults: those of create, and
\* one that gives every field of the nested schema together with an `_id`
DefaultsInputs ==
    RichCreateInputs
    \cup {[_id |-> "custom", username |-> "JohnDoe", age |-> "n25", tag |-> TagOk]}

\* the data a caller passes to create before it queries: complete, with a
\* declared field left out, and of another user
FindInputs ==
    {[username |-> "JohnDoe", age |-> "n25"],
     [username |-> "JohnDoe"],
     [username |-> "Jane", age |-> "n26"]}

\* the concurrent callers of one process
Callers == {"a", "b"}

\* a caller with no call in flight
NoCall ==
    [pc |-> "idle", data |-> NoDoc, result |-> NoDoc, threw |-> FALSE,
     overlap |-> FALSE, raced |-> FALSE]
NoCalls == [c \in Callers |-> NoCall]

\* the predicates a caller passes to find and delete
FieldMaps ==
    {FieldMap([username |-> "JohnDoe"]), FieldMap([username |-> "JohnDoe", age |-> "n26"])}
PredicateFunctions == {Predicate("isJohnDoe")}
Criteria == FieldMaps \cup PredicateFunctions

\* the assignments a caller makes to the document it holds
Edits == {<<"age", "n26">>}

\* the identifiers a caller looks up: that of the document create has just
\* returned (undefined when there is none), and one of its own
FindIds == {Get(created, "_id"), "custom"}

\* the identifiers a caller saves under: that of the last stored document
\* (undefined when it has none), and one of its own
SaveIds == {IF file = << >> THEN "custom" ELSE Get(file[Len(file)], "_id"), "custom"}

\* the plain documents a caller passes to model.save
SaveInputs ==
    {[_id |-> id, username |-> "Jane", age |-> "n26"] : id \in SaveIds}
    \cup {[_id |-> "custom", username |-> "Jane", nickname |-> "jd"],
          [_id |-> "custom", username |-> "Jane", __originalId |-> "custom", save |-> SaveFn]}

\* ---------------------------------------------------- history of the caller
\* the record of an operation; its result is in the field of its type
Op(name, criteria, data, pre) ==
    [op |-> name, criteria |-> criteria, data |-> data, pre |-> pre,
     doc |-> NoDoc, docs |-> << >>, flag |-> FALSE, count |-> 0, threw |-> FALSE]

Idle ==
    [stage |-> 0, fresh |-> FALSE, criteria |-> NoCriteria, field |-> "-", value |-> "-", n |-> 0]

\* stage 1: create has just put the first document into an empty collection
FlowAfterCreate(pre, threw) ==
    IF pre = << >> /\ ~threw THEN [Idle EXCEPT !.stage = 1] ELSE Idle

\* stage 2: findOne with a field map has handed a document out;
\* stage 5: the same findOne is repeated after the edited document was saved
FlowAfterFindOne(criteria, db, found) ==
    IF flow.stage = 4 /\ criteria = flow.criteria THEN [flow EXCEPT !.stage = 5]
    ELSE IF found /\ criteria.kind = "map"
    THEN [Idle EXCEPT !.stage = 2, !.fresh = (flow.stage = 1),
                      !.criteria = criteria, !.n = Len(db)]
    ELSE Idle

\* stage 3: the caller has changed a declared field the predicate does not read
FlowAfterEdit(field, value) ==
    IF /\ flow.stage = 2
       /\ field \in DOMAIN schemaDefinition \ {"_id"}
       /\ field \notin ObjectKeys(flow.criteria)
       /\ Get(held, field) # value
    THEN [flow EXCEPT !.stage = 3, !.field = field, !.value = value]
    ELSE Idle

\* stage 4: the caller has invoked the save attached to the edited document
FlowAfterHeldSave ==
    IF flow.stage = 3 THEN [flow EXCEPT !.stage = 4] ELSE Idle

\* the created document stays on record for a find that follows create at once
CreatedNext == IF last.op = "create" /\ ~last.threw THEN created ELSE NoDoc

\* ---------------------------------------------------- built-in collections
\* the content of a built-in collection file, with how it reads:
\*   "ok"       an object with the required key or keys
\*   "null"     a counter whose key holds null (what JSON.stringify makes of NaN)
\*   "keyless"  well-formed JSON, an object without the required key
\*   "corrupt"  not well-formed JSON
\*   "missing"  no file
Counter(n) == [state |-> "ok", value |-> n]
NoCounter(state) == [state |-> state, value |-> 0]
Settings(runtime, interactioncount) ==
    [state |-> "ok", runtime |-> runtime, interactioncount |-> interactioncount]
NoSettings(state) == [state |-> state, runtime |-> FALSE, interactioncount |-> FALSE]

\* the four collections, by their shorthand names
Cltns(vdbs, ti, ci, rt) == [vdbs |-> vdbs, ti |-> ti, ci |-> ci, rt |-> rt]

\* getCollection(name) throws: the file is missing, or JSON.parse throws
getCollectionThrows(collection) == collection.state \in {"missing", "corrupt"}

\* updateCollection(name, data) throws: the file is missing
updateCollectionThrows(collection) == collection.state = "missing"

\* {key: collection[key] + 1} as updateCollection writes it: undefined + 1 is
\* NaN, which is written as null, and null + 1 is 1
Increment(collection) ==
    IF collection.state = "ok" THEN Counter(collection.value + 1)
    ELSE IF collection.state = "null" THEN Counter(1)
    ELSE NoCounter("null")

\* the collections as connect() leaves them in a fresh installation, and with
\* interactions counted before
Connected == Cltns(Settings(TRUE, TRUE), Counter(1), Counter(0), Counter(0))

\* no operation invoked, nothing suspended, no interval started
NoRead == NoCounter("-")
Invocation(name, criteria, data) == [name |-> name, criteria |-> criteria, data |-> data]
NoOp ==
    [inv |-> Invocation("-", NoCriteria, NoDoc), state |-> "idle", books |-> 0, failed |-> FALSE, alone |-> FALSE,
     before |-> [ti |-> NoRead, ci |-> NoRead], after |-> [ti |-> NoRead, ci |-> NoRead],
     lazy |-> [existed |-> FALSE, before |-> << >>, after |-> << >>],
     rec |-> Op("none", NoCriteria, NoDoc, << >>), post |-> << >>]
NoOps == [c \in Callers |-> NoOp]
Running(start) == [state |-> "running", unhandled |-> 0, start |-> start]
\* the options a caller passes to connect; a key left out reads as undefined
Options(runtime, interactioncount) ==
    [runtime |-> runtime, interactioncount |-> interactioncount]
\* intervals: the setInterval timers started; fired: how many of them have run
\* their callback in the current second; elapsed: the seconds since the last
\* connect; intact: nothing but the callbacks has written rt since then.  The
\* rest is the record of the last step: its name, the collections, intervals
\* and reports before it, and the options of the last connect
NoTimer ==
    [intervals |-> 0, fired |-> 0, elapsed |-> 0, connects |-> 0, enabled |-> FALSE,
     intact |-> FALSE, reported |-> 0, step |-> "none", before |-> Connected,
     was |-> [intervals |-> 0, reported |-> 0], options |-> Options(Undefined, Undefined)]

InitBuiltin ==
    /\ cltns = Connected
    /\ ops = NoOps
    /\ queue = << >>
    /\ proc = Running(Connected)
    /\ timer = NoTimer

\* no string handed to isUUID, no model bound by name, no document held by a
\* caller, and a collection file that parses
NoCandidate == [s |-> << >>, source |-> "none", valid |-> FALSE]
NoDbs ==
    [bound |-> [c \in Callers |-> "-"], path |-> [c \in Callers |-> "-"],
     resolved |-> [c \in Callers |-> "-"], seen |-> [c \in Callers |-> << >>],
     files |-> << >>]
NoHandles ==
    [of |-> [c \in Callers |-> NoDoc], base |-> [c \in Callers |-> NoDoc], saved |-> << >>]

InitApart ==
    /\ candidate = NoCandidate
    /\ dbs = NoDbs
    /\ handles = NoHandles
    /\ wellFormed = [now |-> TRUE, before |-> TRUE]

\* ------------------------------------------------------------------- Init
Init ==
    /\ schemaDefinition \in Schemas
    /\ fileExists = FALSE
    /\ file = << >>
    /\ held = NoDoc
    /\ last = Op("none", NoCriteria, NoDoc, << >>)
    /\ created = NoDoc
    /\ flow = Idle
    /\ calls = NoCalls
    /\ InitBuiltin
    /\ InitApart

\* the model bound to one of the richer schemas
InitSchema ==
    /\ schemaDefinition \in RichSchemas
    /\ fileExists = FALSE
    /\ file = << >>
    /\ held = NoDoc
    /\ last = Op("none", NoCriteria, NoDoc, << >>)
    /\ created = NoDoc
    /\ flow = Idle
    /\ calls = NoCalls
    /\ InitBuiltin
    /\ InitApart

\* ---------------------------------------------------------------- actions
\* schema.validate(data), called on the schema directly
Validate(data) ==
    /\ last' = [Op("validate", NoCriteria, data, readDb) EXCEPT
                    !.threw = validateThrows(data, schemaDefinition)]
    /\ created' = NoDoc
    /\ flow' = Idle
    /\ UNCHANGED <<schemaDefinition, fileExists, file>>

\* schema.applyDefaults(schema.applyDefaults(data)), called on the schema
\* directly: the record keeps the result of the inner and of the outer call
ApplyDefaultsTwice(data) ==
    LET n1 == DefaultsDrawUuid(data, schemaDefinition)
        once == applyDefaults(data, schemaDefinition, 0)
        twice == applyDefaults(once, schemaDefinition, n1)
    IN  /\ CanDraw(n1)
        /\ CanDraw(n1 + DefaultsDrawUuid(once, schemaDefinition))
        /\ last' = [Op("applyDefaults", NoCriteria, data, readDb) EXCEPT
                        !.docs = <<once, twice>>]
        /\ created' = NoDoc
        /\ flow' = Idle
        /\ UNCHANGED <<schemaDefinition, fileExists, file>>

\* create that writes the document before it validates it
CreateWritesBeforeValidate(data) ==
    LET db == readDb
        n1 == DefaultsDrawUuid(data, schemaDefinition)
        defaulted == applyDefaults(data, schemaDefinition, 0)
        threw == validateThrows(defaulted, schemaDefinition)
        withSave == With(defaulted, "save", SaveFn)
        n2 == CreateIdDrawsUuid(withSave, schemaDefinition)
        newData == createId(withSave, schemaDefinition, createUUID(n1 + 1))
    IN  /\ Len(db) < MaxDocs
        /\ CanDraw(n1 + n2)
        /\ fileExists' = TRUE
        /\ file' = Append(db, Serialize(newData))
        /\ IF threw
           THEN /\ last' = [Op("create", NoCriteria, data, db) EXCEPT !.threw = TRUE]
                /\ created' = NoDoc
           ELSE /\ last' = [Op("create", NoCriteria, data, db) EXCEPT !.doc = newData]
                /\ created' = newData
        /\ flow' = FlowAfterCreate(db, threw)
        /\ UNCHANGED schemaDefinition

\* create that validates the data as the caller passed it
CreateValidatesData(data) ==
    LET db == readDb
        n1 == DefaultsDrawUuid(data, schemaDefinition)
        defaulted == applyDefaults(data, schemaDefinition, 0)
        threw == validateThrows(data, schemaDefinition)
        withSave == With(defaulted, "save", SaveFn)
        n2 == CreateIdDrawsUuid(withSave, schemaDefinition)
        newData == createId(withSave, schemaDefinition, createUUID(n1 + 1))
    IN  /\ Len(db) < MaxDocs
        /\ CanDraw(n1 + n2)
        /\ fileExists' = TRUE
        /\ IF threw
           THEN /\ file' = db
                /\ last' = [Op("create", NoCriteria, data, db) EXCEPT !.threw = TRUE]
                /\ created' = NoDoc
           ELSE /\ file' = Append(db, Serialize(newData))
                /\ last' = [Op("create", NoCriteria, data, db) EXCEPT !.doc = newData]
                /\ created' = newData
        /\ flow' = FlowAfterCreate(db, threw)
        /\ UNCHANGED schemaDefinition

\* model.create(data)
Create(data) ==
    LET db == readDb
        n1 == DefaultsDrawUuid(data, schemaDefinition)
        defaulted == applyDefaults(data, schemaDefinition, 0)
        threw == validateThrows(defaulted, schemaDefinition)
        withSave == With(defaulted, "save", SaveFn)
        n2 == CreateIdDrawsUuid(withSave, schemaDefinition)
        newData == createId(withSave, schemaDefinition, createUUID(n1 + 1))
    IN  /\ Len(db) < MaxDocs
        /\ CanDraw(n1 + n2)
        /\ fileExists' = TRUE
        /\ IF threw
           THEN /\ file' = db
                /\ last' = [Op("create", NoCriteria, data, db) EXCEPT !.threw = TRUE]
                /\ created' = NoDoc
           ELSE /\ file' = Append(db, Serialize(newData))
                /\ last' = [Op("create", NoCriteria, data, db) EXCEPT !.doc = newData]
                /\ created' = newData
        /\ flow' = FlowAfterCreate(db, threw)
        /\ UNCHANGED schemaDefinition

\* wipe that writes back what it read
WipeLeavesContent ==
    /\ fileExists' = TRUE
    /\ file' = readDb
    /\ last' = [Op("wipe", NoCriteria, NoDoc, readDb) EXCEPT !.flag = TRUE]
    /\ created' = NoDoc
    /\ flow' = Idle
    /\ UNCHANGED schemaDefinition

\* model.wipe()
Wipe ==
    /\ fileExists' = TRUE
    /\ file' = << >>
    /\ last' = [Op("wipe", NoCriteria, NoDoc, readDb) EXCEPT !.flag = TRUE]
    /\ created' = NoDoc
    /\ flow' = Idle
    /\ UNCHANGED schemaDefinition

\* findOne that writes the default-filled document back
FindOneBodyWritesBack(name, criteria) ==
    LET db == readDb
        index == findIndex(db, criteria)
        doc == With(applyDefaults(db[index], schemaDefinition, 0), "save", SaveFn)
    IN  /\ index # 0 => CanDraw(DefaultsDrawUuid(db[index], schemaDefinition))
        /\ fileExists' = TRUE
        /\ file' = IF index = 0 THEN db ELSE [db EXCEPT ![index] = Serialize(doc)]
        /\ last' = IF index = 0 THEN Op(name, criteria, NoDoc, db)
                   ELSE [Op(name, criteria, NoDoc, db) EXCEPT !.doc = doc]
        /\ flow' = FlowAfterFindOne(criteria, db, index # 0)
        /\ created' = CreatedNext
        /\ UNCHANGED schemaDefinition

\* the body of findOne(criteria)
FindOneBody(name, criteria) ==
    LET db == readDb
        index == findIndex(db, criteria)
        doc == With(applyDefaults(db[index], schemaDefinition, 0), "save", SaveFn)
    IN  /\ index # 0 => CanDraw(DefaultsDrawUuid(db[index], schemaDefinition))
        /\ fileExists' = TRUE
        /\ file' = db
        /\ last' = IF index = 0 THEN Op(name, criteria, NoDoc, db)
                   ELSE [Op(name, criteria, NoDoc, db) EXCEPT !.doc = doc]
        /\ flow' = FlowAfterFindOne(criteria, db, index # 0)
        /\ created' = CreatedNext
        /\ UNCHANGED schemaDefinition

\* model.findOne(criteria)
FindOne(criteria) ==
    /\ FindOneBody("findOne", criteria)

\* model.findById(id): findOne({_id: id})
FindById(id) ==
    /\ FindOneBody("findById", FieldMap([_id |-> id]))

\* .map(doc => applyDefaults(doc)) over the matches, n identifiers drawn before
RECURSIVE applyDefaultsAll(_, _, _)
applyDefaultsAll(docs, schema, n) ==
    IF docs = << >> THEN << >>
    ELSE <<applyDefaults(Head(docs), schema, n)>>
         \o applyDefaultsAll(Tail(docs), schema, n + DefaultsDrawUuid(Head(docs), schema))

\* the identifiers that map draws
RECURSIVE DrawsAll(_)
DrawsAll(docs) ==
    IF docs = << >> THEN 0
    ELSE DefaultsDrawUuid(Head(docs), schemaDefinition) + DrawsAll(Tail(docs))

\* findMany that returns the first match only
FindManyFirstOnly(criteria) ==
    LET db == readDb
        index == findIndex(db, criteria)
        found == IF index = 0 THEN << >> ELSE <<db[index]>>
    IN  /\ CanDraw(DrawsAll(found))
        /\ fileExists' = TRUE
        /\ file' = db
        /\ last' = [Op("findMany", criteria, NoDoc, db) EXCEPT
                        !.docs = applyDefaultsAll(found, schemaDefinition, 0)]
        /\ created' = NoDoc
        /\ flow' = Idle
        /\ UNCHANGED schemaDefinition

\* model.findMany(criteria)
FindMany(criteria) ==
    LET db == readDb
        found == filterAt(db, {i \in 1..Len(db) : matches(db[i], criteria)}, 1)
    IN  /\ CanDraw(DrawsAll(found))
        /\ fileExists' = TRUE
        /\ file' = db
        /\ last' = [Op("findMany", criteria, NoDoc, db) EXCEPT
                        !.docs = applyDefaultsAll(found, schemaDefinition, 0)]
        /\ created' = NoDoc
        /\ flow' = Idle
        /\ UNCHANGED schemaDefinition

\* model.deleteOne(criteria)
DeleteOne(criteria) ==
    LET db == readDb
        index == findIndex(db, criteria)
    IN  /\ fileExists' = TRUE
        /\ IF index = 0
           THEN /\ file' = db
                /\ last' = Op("deleteOne", criteria, NoDoc, db)
           ELSE /\ file' = splice(db, index)
                /\ last' = [Op("deleteOne", criteria, NoDoc, db) EXCEPT !.flag = TRUE]
        /\ created' = NoDoc
        /\ flow' = Idle
        /\ UNCHANGED schemaDefinition

\* model.deleteMany(criteria)
DeleteMany(criteria) ==
    LET db == readDb
        kept == filterAt(db, {i \in 1..Len(db) : ~matches(db[i], criteria)}, 1)
    IN  /\ fileExists' = TRUE
        /\ file' = kept
        /\ last' = [Op("deleteMany", criteria, NoDoc, db) EXCEPT !.count = Len(db) - Len(kept)]
        /\ created' = NoDoc
        /\ flow' = Idle
        /\ UNCHANGED schemaDefinition

\* the body of model.save(data)
SaveBody(name, data, nextFlow) ==
    LET db == readDb
        threw == saveThrows(data, schemaDefinition)
    IN  /\ threw \/ Len(saveInto(db, data)) <= MaxDocs
        /\ fileExists' = TRUE
        /\ file' = IF threw THEN db ELSE saveInto(db, data)
        /\ last' = [Op(name, NoCriteria, data, db) EXCEPT
                        !.doc = IF threw THEN NoDoc ELSE data, !.threw = threw]
        /\ created' = NoDoc
        /\ flow' = IF threw THEN Idle ELSE nextFlow
        /\ UNCHANGED schemaDefinition

\* model.save(data) on a plain document
ModelSave(data) ==
    /\ SaveBody("save", data, Idle)

\* held.save(): the attached closure calls model.save on the document itself
HeldSave ==
    /\ held # NoDoc
    /\ SaveBody("held.save", held, FlowAfterHeldSave)
    /\ UNCHANGED <<held, calls, builtin, apart>>

\* the caller assigns to a field of the document it holds
EditHeld(field, value) ==
    /\ held # NoDoc
    /\ held' = With(held, field, value)
    /\ last' = Op("edit", NoCriteria, held, readDb)
    /\ created' = NoDoc
    /\ flow' = FlowAfterEdit(field, value)
    /\ UNCHANGED <<schemaDefinition, fileExists, file, calls, builtin, apart>>

\* what the caller does with the result: it keeps a returned document, or not
Keep ==
    /\ held' = IF last'.doc # NoDoc THEN last'.doc ELSE held
    /\ UNCHANGED <<calls, builtin, apart>>
Drop == UNCHANGED <<held, calls, builtin, apart>>

\* a caller that uses the model's operations with plain data
Next ==
    \/ \E data \in CreateInputs : Create(data) /\ Drop
    \/ Wipe /\ Drop
    \/ \E criteria \in Criteria : FindOne(criteria) /\ Drop
    \/ \E id \in FindIds : FindById(id) /\ Drop
    \/ \E criteria \in Criteria : FindMany(criteria) /\ Drop
    \/ \E criteria \in Criteria : DeleteOne(criteria) /\ Drop
    \/ \E criteria \in Criteria : DeleteMany(criteria) /\ Drop
    \/ \E data \in SaveInputs : ModelSave(data) /\ Drop

Spec == Init /\ [][Next]_vars

\* a caller that edits the documents it is handed and saves them
NextEdit ==
    \/ \E data \in CreateInputs : Create(data) /\ Keep
    \/ \E criteria \in FieldMaps : FindOne(criteria) /\ Keep
    \/ \E e \in Edits : EditHeld(e[1], e[2])
    \/ HeldSave
    \/ Wipe /\ Drop

SpecEdit == Init /\ [][NextEdit]_vars

\* ------------------------------------------------ concurrent create calls
\* create runs in one process with other calls: it gives the control away at
\* its awaits and nowhere else.  The steps of a call of caller c:
\*   CreateCall     create is entered; _ensureCollection calls getDbFile, which
\*                  creates a missing file at once, and awaits it
\*   CreateEnsured  _ensureCollection goes on after its await: the file
\*                  exists; create awaits _ensureCollection
\*   CreatePath     create goes on and calls getDbFile, and awaits it
\*   CreateCycle    create goes on: it reads the file, builds the document,
\*                  pushes, writes and returns, with no await in between

\* whether a call of another caller than c is in flight
OthersInFlight(c) == \E d \in Callers \ {c} : calls[d].pc \notin {"idle", "done"}

\* whether another call is suspended at its last await, about to read the file
OthersAboutToLoad(c) == \E d \in Callers \ {c} : calls[d].pc = "path"

CreateCall(c, data) ==
    /\ calls[c].pc = "idle"
    /\ fileExists' = TRUE
    /\ file' = readDb
    /\ calls' = [calls EXCEPT ![c] = [pc |-> "ensure", data |-> data, result |-> NoDoc,
                                       threw |-> FALSE, overlap |-> OthersInFlight(c),
                                       raced |-> FALSE]]
    /\ UNCHANGED <<schemaDefinition, held, last, created, flow, builtin, apart>>

CreateEnsured(c) ==
    /\ calls[c].pc = "ensure"
    /\ fileExists' = TRUE
    /\ file' = readDb
    /\ calls' = [calls EXCEPT ![c].pc = "ensured"]
    /\ UNCHANGED <<schemaDefinition, held, last, created, flow, builtin, apart>>

\* getDbFile writing [] without asking whether the file exists
CreatePathRecreatesFile(c) ==
    /\ calls[c].pc = "ensured"
    /\ fileExists' = TRUE
    /\ file' = << >>
    /\ calls' = [calls EXCEPT ![c].pc = "path"]
    /\ UNCHANGED <<schemaDefinition, held, last, created, flow, builtin, apart>>

CreatePath(c) ==
    /\ calls[c].pc = "ensured"
    /\ fileExists' = TRUE
    /\ file' = readDb
    /\ calls' = [calls EXCEPT ![c].pc = "path"]
    /\ UNCHANGED <<schemaDefinition, held, last, created, flow, builtin, apart>>

CreateCycle(c) ==
    /\ calls[c].pc = "path"
    /\ Create(calls[c].data)
    /\ calls' = [calls EXCEPT ![c].pc = "done", ![c].result = last'.doc,
                              ![c].threw = last'.threw,
                              ![c].overlap = calls[c].overlap \/ OthersInFlight(c),
                              ![c].raced = OthersAboutToLoad(c)]
    /\ UNCHANGED <<held, builtin, apart>>

\* two callers of one process, each calling create once
NextConcurrent ==
    \/ \E c \in Callers, data \in CreateInputs : CreateCall(c, data)
    \/ \E c \in Callers : CreateEnsured(c)
    \/ \E c \in Callers : CreatePath(c)
    \/ \E c \in Callers : CreateCycle(c)

SpecConcurrent == Init /\ [][NextConcurrent]_vars

\* ------------------------------------- operations and their bookkeeping
\* Every operation of the model calls updateInteractions() without awaiting it
\* and goes on.  All file access is synchronous, so a continuation runs from
\* one await to the next without interruption, and the suspended continuations
\* resume in the order in which they were suspended (`queue`).  The steps:
\*   Invoke         the caller invokes an operation: updateInteractions reads
\*                  the settings and suspends, the operation calls getDbFile,
\*                  which creates a missing file, and suspends
\*   BookReadTi     updateInteractions tests the flag and reads ti
\*   BookReadCi     it reads ci
\*   BookWriteTi    it writes ti, one more than it read
\*   BookWriteCi    it writes ci, one more than it read
\*   BookReturn     it returns
\*   RunBody        the operation reads the file, does its work and returns
\*   Terminate      the process ends on an unhandled rejection, which it does,
\*                  or does not, once no continuation is left to resume

\* the operations a caller invokes
ByName == FieldMap([username |-> "JohnDoe"])
Invocations ==
    {Invocation("create", NoCriteria, [username |-> "JohnDoe", age |-> "n25"]),
     Invocation("wipe", NoCriteria, NoDoc),
     Invocation("findOne", ByName, NoDoc),
     Invocation("findById", FieldMap([_id |-> "custom"]), NoDoc),
     Invocation("findMany", ByName, NoDoc),
     Invocation("deleteOne", ByName, NoDoc),
     Invocation("deleteMany", ByName, NoDoc),
     Invocation("save", NoCriteria, [_id |-> "custom", username |-> "JohnDoe", age |-> "n26"])}

\* a suspended updateInteractions of caller c: where it resumes, the flag it
\* read, and the counters it has read; and the suspended operation itself
Book(c, pc, enabled, ti, ci) ==
    [kind |-> "book", caller |-> c, pc |-> pc, enabled |-> enabled, ti |-> ti, ci |-> ci]
Body(c) ==
    [kind |-> "body", caller |-> c, pc |-> "body", enabled |-> FALSE, ti |-> NoRead, ci |-> NoRead]

\* the interaction counters as they are
Counters(collections) == [ti |-> collections.ti, ci |-> collections.ci]

\* an updateInteractions of caller c has ended, by return or by rejection
Finished(c, rejected, counters) ==
    [ops EXCEPT ![c].books = @ - 1,
                ![c].failed = @ \/ rejected,
                ![c].after = IF ops[c].books = 1 THEN counters ELSE @]

\* the settings and counter collections as the caller finds them
CountScenarios ==
    {Connected,
     [Connected EXCEPT !.vdbs = Settings(TRUE, FALSE)],
     [Connected EXCEPT !.vdbs = NoSettings("missing")],
     [Connected EXCEPT !.vdbs = NoSettings("corrupt")],
     [Connected EXCEPT !.ti = NoCounter("missing")],
     [Connected EXCEPT !.ci = NoCounter("corrupt")]}

InitCount ==
    /\ schemaDefinition = SchemaIdDeclared
    /\ fileExists = FALSE
    /\ file = << >>
    /\ held = NoDoc
    /\ last = Op("none", NoCriteria, NoDoc, << >>)
    /\ created = NoDoc
    /\ flow = Idle
    /\ calls = NoCalls
    /\ cltns \in CountScenarios
    /\ ops = NoOps
    /\ queue = << >>
    /\ proc = Running(cltns)
    /\ timer = NoTimer
    /\ InitApart

\* the caller invokes an operation of the model (findById calls
\* updateInteractions itself and again through findOne)
Invoke(c, inv) ==
    LET k == IF inv.name = "findById" THEN 2 ELSE 1
        rejected == getCollectionThrows(cltns.vdbs)
        enabled == cltns.vdbs.state = "ok" /\ cltns.vdbs.interactioncount
        book == Book(c, "flag", enabled, NoRead, NoRead)
        books == IF rejected THEN << >> ELSE IF k = 2 THEN <<book, book>> ELSE <<book>>
        busy == {d \in Callers \ {c} : ops[d].books > 0}
    IN  /\ proc.state = "running"
        /\ ops[c].state = "idle"
        /\ fileExists' = TRUE
        /\ file' = readDb
        /\ queue' = queue \o books \o <<Body(c)>>
        /\ proc' = [proc EXCEPT !.unhandled = @ + (IF rejected THEN k ELSE 0)]
        /\ ops' = [d \in Callers |->
                    IF d = c
                    THEN [NoOp EXCEPT !.inv = inv, !.state = "pending",
                                      !.books = Len(books), !.failed = rejected,
                                      !.alone = (busy = {}),
                                      !.before = Counters(cltns),
                                      !.lazy = [existed |-> fileExists, before |-> file,
                                                after |-> file']]
                    ELSE IF d \in busy THEN [ops[d] EXCEPT !.alone = FALSE]
                    ELSE ops[d]]
        /\ UNCHANGED <<schemaDefinition, held, last, created, flow, calls, apart, cltns, timer>>

\* updateInteractions that counts whatever the settings say
BookReadTiIgnoresFlag ==
    LET b == Head(queue)
    IN  /\ proc.state = "running"
        /\ queue # << >>
        /\ b.kind = "book" /\ b.pc = "flag"
        /\ IF getCollectionThrows(cltns.ti)
           THEN /\ queue' = Tail(queue)
                /\ ops' = Finished(b.caller, TRUE, Counters(cltns))
                /\ proc' = [proc EXCEPT !.unhandled = @ + 1]
           ELSE /\ queue' = Append(Tail(queue), [b EXCEPT !.pc = "ci", !.ti = cltns.ti])
                /\ UNCHANGED <<ops, proc>>
        /\ UNCHANGED <<schemaDefinition, fileExists, file, held, last, created, flow, calls, apart,
                       cltns, timer>>

\* updateInteractions after `await getCollection("vdbs")`
BookReadTi ==
    LET b == Head(queue)
    IN  /\ proc.state = "running"
        /\ queue # << >>
        /\ b.kind = "book" /\ b.pc = "flag"
        /\ IF ~b.enabled
           THEN /\ queue' = Tail(queue)
                /\ ops' = Finished(b.caller, FALSE, Counters(cltns))
                /\ UNCHANGED proc
           ELSE IF getCollectionThrows(cltns.ti)
           THEN /\ queue' = Tail(queue)
                /\ ops' = Finished(b.caller, TRUE, Counters(cltns))
                /\ proc' = [proc EXCEPT !.unhandled = @ + 1]
           ELSE /\ queue' = Append(Tail(queue), [b EXCEPT !.pc = "ci", !.ti = cltns.ti])
                /\ UNCHANGED <<ops, proc>>
        /\ UNCHANGED <<schemaDefinition, fileExists, file, held, last, created, flow, calls, apart,
                       cltns, timer>>

\* updateInteractions after `await getCollection("ti")`
BookReadCi ==
    LET b == Head(queue)
    IN  /\ proc.state = "running"
        /\ queue # << >>
        /\ b.kind = "book" /\ b.pc = "ci"
        /\ IF getCollectionThrows(cltns.ci)
           THEN /\ queue' = Tail(queue)
                /\ ops' = Finished(b.caller, TRUE, Counters(cltns))
                /\ proc' = [proc EXCEPT !.unhandled = @ + 1]
           ELSE /\ queue' = Append(Tail(queue), [b EXCEPT !.pc = "writeTi", !.ci = cltns.ci])
                /\ UNCHANGED <<ops, proc>>
        /\ UNCHANGED <<schemaDefinition, fileExists, file, held, last, created, flow, calls, apart,
                       cltns, timer>>

\* updateInteractions that adds one to the counter as it is when it writes
BookWriteTiRereads ==
    LET b == Head(queue)
    IN  /\ proc.state = "running"
        /\ queue # << >>
        /\ b.kind = "book" /\ b.pc = "writeTi"
        /\ IF updateCollectionThrows(cltns.ti)
           THEN /\ queue' = Tail(queue)
                /\ ops' = Finished(b.caller, TRUE, Counters(cltns))
                /\ proc' = [proc EXCEPT !.unhandled = @ + 1]
                /\ UNCHANGED cltns
           ELSE /\ cltns' = [cltns EXCEPT !.ti = Increment(cltns.ti)]
                /\ queue' = Append(Tail(queue), [b EXCEPT !.pc = "writeCi"])
                /\ UNCHANGED <<ops, proc>>
        /\ UNCHANGED <<schemaDefinition, fileExists, file, held, last, created, flow, calls, apart,
                       timer>>

\* updateInteractions after `await getCollection("ci")`:
\* updateCollection("ti", {interactions: ti.interactions + 1})
BookWriteTi ==
    LET b == Head(queue)
    IN  /\ proc.state = "running"
        /\ queue # << >>
        /\ b.kind = "book" /\ b.pc = "writeTi"
        /\ IF updateCollectionThrows(cltns.ti)
           THEN /\ queue' = Tail(queue)
                /\ ops' = Finished(b.caller, TRUE, Counters(cltns))
                /\ proc' = [proc EXCEPT !.unhandled = @ + 1]
                /\ UNCHANGED cltns
           ELSE /\ cltns' = [cltns EXCEPT !.ti = Increment(b.ti)]
                /\ queue' = Append(Tail(queue), [b EXCEPT !.pc = "writeCi"])
                /\ UNCHANGED <<ops, proc>>
        /\ UNCHANGED <<schemaDefinition, fileExists, file, held, last, created, flow, calls, apart,
                       timer>>

\* updateInteractions after `await updateCollection("ti", ...)`:
\* updateCollection("ci", {interactions: ci.interactions + 1})
BookWriteCi ==
    LET b == Head(queue)
    IN  /\ proc.state = "running"
        /\ queue # << >>
        /\ b.kind = "book" /\ b.pc = "writeCi"
        /\ IF updateCollectionThrows(cltns.ci)
           THEN /\ queue' = Tail(queue)
                /\ ops' = Finished(b.caller, TRUE, Counters(cltns))
                /\ proc' = [proc EXCEPT !.unhandled = @ + 1]
                /\ UNCHANGED cltns
           ELSE /\ cltns' = [cltns EXCEPT !.ci = Increment(b.ci)]
                /\ queue' = Append(Tail(queue), [b EXCEPT !.pc = "return"])
                /\ UNCHANGED <<ops, proc>>
        /\ UNCHANGED <<schemaDefinition, fileExists, file, held, last, created, flow, calls, apart,
                       timer>>

\* updateInteractions after `await updateCollection("ci", ...)`: it returns
BookReturn ==
    LET b == Head(queue)
    IN  /\ proc.state = "running"
        /\ queue # << >>
        /\ b.kind = "book" /\ b.pc = "return"
        /\ queue' = Tail(queue)
        /\ ops' = Finished(b.caller, FALSE, Counters(cltns))
        /\ UNCHANGED <<schemaDefinition, fileExists, file, held, last, created, flow, calls, apart,
                       cltns, proc, timer>>

\* the operation invoked as inv, from its read of the file to its return
Operation(inv) ==
    \/ inv.name = "create" /\ Create(inv.data)
    \/ inv.name = "wipe" /\ Wipe
    \/ inv.name = "findOne" /\ FindOne(inv.criteria)
    \/ inv.name = "findById" /\ FindById(inv.criteria.map["_id"])
    \/ inv.name = "findMany" /\ FindMany(inv.criteria)
    \/ inv.name = "deleteOne" /\ DeleteOne(inv.criteria)
    \/ inv.name = "deleteMany" /\ DeleteMany(inv.criteria)
    \/ inv.name = "save" /\ ModelSave(inv.data)

\* an operation that awaits updateInteractions and fails when it has failed
RunBodyAwaitsBookkeeping ==
    LET b == Head(queue)
        c == b.caller
    IN  /\ proc.state = "running"
        /\ queue # << >>
        /\ b.kind = "body"
        /\ IF ops[c].failed
           THEN /\ last' = [Op(ops[c].inv.name, ops[c].inv.criteria, ops[c].inv.data, readDb)
                                EXCEPT !.threw = TRUE]
                /\ UNCHANGED <<schemaDefinition, fileExists, file, created, flow>>
           ELSE Operation(ops[c].inv)
        /\ queue' = Tail(queue)
        /\ ops' = [ops EXCEPT ![c].state = "done", ![c].rec = last', ![c].post = file']
        /\ UNCHANGED <<held, calls, apart, cltns, proc, timer>>

\* the operation goes on after its awaits: it reads the file, works and returns
RunBody ==
    LET b == Head(queue)
        c == b.caller
    IN  /\ proc.state = "running"
        /\ queue # << >>
        /\ b.kind = "body"
        /\ Operation(ops[c].inv)
        /\ queue' = Tail(queue)
        /\ ops' = [ops EXCEPT ![c].state = "done", ![c].rec = last', ![c].post = file']
        /\ UNCHANGED <<held, calls, apart, cltns, proc, timer>>

\* a rejection nobody handles ends the process once every continuation has
\* run, on a runtime that treats it as an uncaught exception
Terminate ==
    /\ proc.state = "running"
    /\ proc.unhandled > 0
    /\ queue = << >>
    /\ proc' = [proc EXCEPT !.state = "terminated"]
    /\ UNCHANGED <<schemaDefinition, fileExists, file, held, last, created, flow, calls, apart,
                   cltns, ops, queue, timer>>

\* two callers of one process, each invoking one operation at any moment
NextCount ==
    \/ \E c \in Callers, inv \in Invocations : Invoke(c, inv)
    \/ BookReadTi
    \/ BookReadCi
    \/ BookWriteTi
    \/ BookWriteCi
    \/ BookReturn
    \/ RunBody
    \/ Terminate

SpecCount == InitCount /\ [][NextCount]_vars

\* ------------------------------------------------ connect and its interval
\* connect and the callbacks of its intervals do their file access
\* synchronously and await only results that are there already: each runs to
\* its end before a timer or another caller's turn comes.  The steps:
\*   Connect   connect(options)
\*   Tick      the callback of one interval
\*   Second    a second has passed: every interval has run its callback once
\*   Damage    somebody deletes or overwrites the runtime collection file
\*   Restore   somebody puts a well-formed runtime collection file back

\* the `= true` of connect's parameter destructuring
OrTrue(option) == IF option = Undefined THEN TRUE ELSE option = True

ConnectOptions ==
    {Options(Undefined, Undefined), Options(False, Undefined), Options(True, False)}

\* the default content validateCltns writes
defaultData(name) == IF name = "vdbs" THEN Settings(TRUE, TRUE) ELSE Counter(0)

\* validateCltns that writes the default content into every collection
validateCltnsResetsAll(collections) ==
    [name \in DOMAIN collections |-> defaultData(name)]

\* validateCltns: a collection that is missing, is not well-formed JSON or
\* lacks a required key gets the default content, any other is left alone
validateCltns(collections) ==
    [name \in DOMAIN collections |->
        IF collections[name].state \in {"missing", "corrupt", "keyless"}
        THEN defaultData(name)
        ELSE collections[name]]

\* the built-in collections as a process finds them: never set up, used
\* before, and damaged
ConnectScenarios ==
    {Cltns(NoSettings("missing"), NoCounter("missing"), NoCounter("missing"),
           NoCounter("missing")),
     Cltns(Settings(TRUE, TRUE), Counter(4), Counter(3), Counter(9)),
     Cltns(NoSettings("keyless"), NoCounter("corrupt"), NoCounter("keyless"),
           NoCounter("corrupt"))}

InitConnect ==
    /\ schemaDefinition = SchemaIdDeclared
    /\ fileExists = FALSE
    /\ file = << >>
    /\ held = NoDoc
    /\ last = Op("none", NoCriteria, NoDoc, << >>)
    /\ created = NoDoc
    /\ flow = Idle
    /\ calls = NoCalls
    /\ cltns \in ConnectScenarios
    /\ ops = NoOps
    /\ queue = << >>
    /\ proc = Running(cltns)
    /\ timer = [NoTimer EXCEPT !.before = cltns]
    /\ InitApart

\* the step taken, on record with the state before it
Stepped(name) ==
    [timer EXCEPT !.step = name, !.before = cltns,
                  !.was = [intervals |-> timer.intervals, reported |-> timer.reported]]

\* VunshDB.connect(options)
Connect(options) ==
    LET runtime == OrTrue(options.runtime)
        interactioncount == OrTrue(options.interactioncount)
        valid == validateCltns(cltns)
    IN  /\ timer.connects < MaxConnects
        /\ cltns' = [valid EXCEPT !.vdbs = Settings(runtime, interactioncount),
                                  !.rt = Counter(0),
                                  !.ci = Counter(0)]
        /\ timer' = [Stepped("connect") EXCEPT
                        !.intervals = IF runtime THEN @ + 1 ELSE @,
                        !.fired = 0,
                        !.elapsed = 0,
                        !.connects = @ + 1,
                        !.enabled = runtime,
                        !.intact = TRUE,
                        !.options = options]
        /\ UNCHANGED <<schemaDefinition, fileExists, file, held, last, created, flow, calls, apart,
                       ops, queue, proc>>

\* a callback that clears its interval when the collection cannot be read
TickStopsOnFailure ==
    /\ timer.fired < timer.intervals
    /\ IF getCollectionThrows(cltns.rt)
       THEN /\ timer' = [Stepped("tick") EXCEPT !.intervals = @ - 1]
            /\ UNCHANGED cltns
       ELSE /\ cltns' = [cltns EXCEPT !.rt = Increment(cltns.rt)]
            /\ timer' = [Stepped("tick") EXCEPT !.fired = @ + 1]
    /\ UNCHANGED <<schemaDefinition, fileExists, file, held, last, created, flow, calls, apart,
                   ops, queue, proc>>

\* the callback of an interval: it reads rt and writes it back plus one, or
\* reports that it could not
Tick ==
    /\ timer.fired < timer.intervals
    /\ IF getCollectionThrows(cltns.rt)
       THEN /\ timer' = [Stepped("tick") EXCEPT !.fired = @ + 1, !.reported = @ + 1]
            /\ UNCHANGED cltns
       ELSE /\ cltns' = [cltns EXCEPT !.rt = Increment(cltns.rt)]
            /\ timer' = [Stepped("tick") EXCEPT !.fired = @ + 1]
    /\ UNCHANGED <<schemaDefinition, fileExists, file, held, last, created, flow, calls, apart,
                   ops, queue, proc>>

\* one second has passed since the last connect, or since the last Second
Second ==
    /\ timer.connects > 0
    /\ timer.fired = timer.intervals
    /\ timer.elapsed < MaxSeconds
    /\ timer' = [Stepped("second") EXCEPT !.fired = 0, !.elapsed = @ + 1]
    /\ UNCHANGED <<schemaDefinition, fileExists, file, held, last, created, flow, calls, apart,
                   cltns, ops, queue, proc>>

\* the runtime collection file is deleted or overwritten from outside
Damage(state) ==
    /\ timer.connects > 0
    /\ cltns.rt.state \in {"ok", "null"}
    /\ cltns' = [cltns EXCEPT !.rt = NoCounter(state)]
    /\ timer' = [Stepped("damage") EXCEPT !.intact = FALSE]
    /\ UNCHANGED <<schemaDefinition, fileExists, file, held, last, created, flow, calls, apart,
                   ops, queue, proc>>

\* a well-formed runtime collection file is put back from outside
Restore ==
    /\ getCollectionThrows(cltns.rt)
    /\ cltns' = [cltns EXCEPT !.rt = Counter(0)]
    /\ timer' = [Stepped("restore") EXCEPT !.intact = FALSE]
    /\ UNCHANGED <<schemaDefinition, fileExists, file, held, last, created, flow, calls, apart,
                   ops, queue, proc>>

NextConnect ==
    \/ \E options \in ConnectOptions : Connect(options)
    \/ Tick
    \/ Second
    \/ \E state \in {"missing", "corrupt", "keyless"} : Damage(state)
    \/ Restore

SpecConnect == InitConnect /\ [][NextConnect]_vars

\* a caller that creates documents and queries them
NextFind ==
    \/ \E data \in FindInputs : Create(data) /\ Drop
    \/ \E criteria \in Criteria : FindOne(criteria) /\ Drop
    \/ \E id \in FindIds : FindById(id) /\ Drop
    \/ \E criteria \in Criteria : FindMany(criteria) /\ Drop
    \/ Wipe /\ Drop

SpecFind == Init /\ [][NextFind]_vars

\* a caller that validates documents against the richer schemas and creates them
NextSchema ==
    \/ \E data \in ValidateInputs : Validate(data) /\ Drop
    \/ \E data \in DefaultsInputs : ApplyDefaultsTwice(data) /\ Drop
    \/ \E data \in RichCreateInputs : Create(data) /\ Drop
    \/ Wipe /\ Drop

SpecSchema == InitSchema /\ [][NextSchema]_vars

\* ----------------------------------------------- the text of an identifier
\* Elsewhere an identifier is a token of UuidPool; here it is the string
\* createUUID builds and isUUID tests, as the sequence of its characters.

\* the variables of the collection model, which the steps below leave alone
crud == <<schemaDefinition, fileExists, file, held, last, created, flow, calls>>

\* 'vdb:xxxxxxxx-xxxx-4xxx-yxxx-xxxxxxxxxxxx'
Template ==
    <<"v", "d", "b", ":",
      "x", "x", "x", "x", "x", "x", "x", "x", "-",
      "x", "x", "x", "x", "-",
      "4", "x", "x", "x", "-",
      "y", "x", "x", "x", "-",
      "x", "x", "x", "x", "x", "x", "x", "x", "x", "x", "x", "x">>

\* v.toString(16) for 0 <= v < 16
HexDigits ==
    <<"0", "1", "2", "3", "4", "5", "6", "7", "8", "9", "a", "b", "c", "d", "e", "f">>
toString16(v) == HexDigits[v + 1]

\* the characters /[xy]/g finds in the first i characters of the template:
\* the callback of replace runs once for each, from left to right
Replaced(i) == Cardinality({j \in 1..i : Template[j] \in {"x", "y"}})

\* the values (Math.random() * 16) | 0 takes in the calls of the callback of one
\* createUUID: the k-th is first + k * stride, modulo 16
Strides == {0, 1, 7}
Draws ==
    {[k \in 1..Replaced(Len(Template)) |-> (first + k * stride) % 16] :
        first \in 0..15, stride \in Strides}

\* createUUID with `y` replaced as `x` is
createUUIDTextPlain(draws) ==
    [i \in 1..Len(Template) |->
        IF Template[i] \in {"x", "y"} THEN toString16(draws[Replaced(i)])
        ELSE Template[i]]

\* Utils.createUUID(), for the given values of Math.random: `x` becomes the
\* digit of r, `y` that of (r & 0x3) | 0x8
createUUIDText(draws) ==
    [i \in 1..Len(Template) |->
        IF Template[i] = "x" THEN toString16(draws[Replaced(i)])
        ELSE IF Template[i] = "y" THEN toString16((draws[Replaced(i)] % 4) + 8)
        ELSE Template[i]]

\* the character classes of
\* /^vdb:[0-9a-f]{8}-[0-9a-f]{4}-4[0-9a-f]{3}-[89ab][0-9a-f]{3}-[0-9a-f]{12}$/
HexClass == {HexDigits[i] : i \in 1..Len(HexDigits)}
Repeat(class, n) == [i \in 1..n |-> class]
uuidRegex ==
    <<{"v"}, {"d"}, {"b"}, {":"}>>
    \o Repeat(HexClass, 8) \o <<{"-"}>>
    \o Repeat(HexClass, 4) \o <<{"-"}, {"4"}>>
    \o Repeat(HexClass, 3) \o <<{"-"}, {"8", "9", "a", "b"}>>
    \o Repeat(HexClass, 3) \o <<{"-"}>>
    \o Repeat(HexClass, 12)

\* what the flag i compares: the upper-case form of a character
toUpperCase(c) ==
    IF c = "a" THEN "A" ELSE IF c = "b" THEN "B" ELSE IF c = "c" THEN "C"
    ELSE IF c = "d" THEN "D" ELSE IF c = "e" THEN "E" ELSE IF c = "f" THEN "F"
    ELSE IF c = "g" THEN "G" ELSE IF c = "v" THEN "V" ELSE IF c = "x" THEN "X"
    ELSE c

\* isUUID without the flag i
isUUIDCaseSensitive(s) ==
    /\ Len(s) = Len(uuidRegex)
    /\ \A i \in 1..Len(s) : s[i] \in uuidRegex[i]

\* Utils.isUUID(s): ^ and $ tie the pattern to the whole string, and with the
\* flag i a character matches a class when their upper-case forms agree
isUUID(s) ==
    /\ Len(s) = Len(uuidRegex)
    /\ \A i \in 1..Len(s) : toUpperCase(s[i]) \in {toUpperCase(x) : x \in uuidRegex[i]}

\* the characters a caller puts into a string it hands to isUUID
Alphabet == {"0", "4", "7", "8", "c", "A", "F", "g", "G", "V", "-", ":", "x", " "}

Tested(s, source) == [s |-> s, source |-> source, valid |-> isUUID(s)]

\* isUUID(createUUID()): a run generates one identifier and tests it, and
\* then tests one string made from it
CreateUUID(draws) ==
    /\ candidate.source = "none"
    /\ candidate' = Tested(createUUIDText(draws), "createUUID")
    /\ UNCHANGED <<crud, builtin, dbs, handles, wellFormed>>

\* isUUID of a generated identifier with one character replaced
Alter(i, c) ==
    /\ candidate.source = "createUUID"
    /\ candidate' = Tested([candidate.s EXCEPT ![i] = c], "altered")
    /\ UNCHANGED <<crud, builtin, dbs, handles, wellFormed>>

\* isUUID of a generated identifier with one character more at its end
Extend(c) ==
    /\ candidate.source = "createUUID"
    /\ candidate' = Tested(Append(candidate.s, c), "extended")
    /\ UNCHANGED <<crud, builtin, dbs, handles, wellFormed>>

\* isUUID of a generated identifier without its last, or without its first character
Truncate(first) ==
    /\ candidate.source = "createUUID"
    /\ candidate' = Tested(IF first THEN Tail(candidate.s)
                           ELSE SubSeq(candidate.s, 1, Len(candidate.s) - 1), "truncated")
    /\ UNCHANGED <<crud, builtin, dbs, handles, wellFormed>>

\* isUUID(createUUID().toUpperCase())
UpperCase ==
    /\ candidate.source = "createUUID"
    /\ candidate' = Tested([i \in 1..Len(candidate.s) |-> toUpperCase(candidate.s[i])],
                           "uppercased")
    /\ UNCHANGED <<crud, builtin, dbs, handles, wellFormed>>

NextUuid ==
    \/ \E draws \in Draws : CreateUUID(draws)
    \/ \E i \in 1..Len(Template), c \in Alphabet : Alter(i, c)
    \/ \E c \in Alphabet \cup {"\n"} : Extend(c)
    \/ \E first \in BOOLEAN : Truncate(first)
    \/ UpperCase

InitUuid ==
    /\ Init
    /\ schemaDefinition = SchemaNoId

SpecUuid == InitUuid /\ [][NextUuid]_vars

\* ------------------------------------------------- models bound by name
\* model(collectionName, schema) keeps the name; each operation asks getDbFile
\* for the file of that name.  `dbs.files` maps the paths of the files in the
\* dbs directory to their content.

\* the names callers bind models to
Names ==
    {"rt", "vdbs", "ci", "ti", "runtime", "vdbsettings", "users", "constructor"}

\* the own properties of the object literal shorthandMapping, and what it
\* inherits from Object.prototype under the name `constructor` (the other
\* inherited names, such as toString and valueOf, behave alike)
shorthandMapping ==
    [rt |-> "runtime", vdbs |-> "vdbsettings", ci |-> "cinteractions", ti |-> "tinteractions"]
Inherited == [constructor |-> ObjectCtor]

\* `${v}`, and v as a property key: the string form of a value
toString(v) == IF v = ObjectCtor THEN "function Object() { [native code] }" ELSE v

\* shorthandMapping[name]
Member(name) ==
    IF toString(name) \in DOMAIN shorthandMapping THEN shorthandMapping[toString(name)]
    ELSE IF toString(name) \in DOMAIN Inherited THEN Inherited[toString(name)]
    ELSE Undefined

\* resolveCollectionName(name): shorthandMapping[name] || name
resolveCollectionName(name) == IF Member(name) # Undefined THEN Member(name) ELSE name

\* path.join(dbPath, `${resolvedName}.vunsh.db`), below dbPath
filePath(name) == toString(resolveCollectionName(name)) \o ".vunsh.db"

\* the files after getDbFile(name): a missing file is created by
\* createDbFile(resolvedName), which resolves the name once more
getDbFile(files, name) ==
    IF filePath(name) \in DOMAIN files THEN files
    ELSE (filePath(resolveCollectionName(name)) :> << >>) @@ files

\* the data the models create
NamedInput(c) ==
    [_id |-> "custom", username |-> IF c = "a" THEN "JohnDoe" ELSE "Jane", age |-> "n25"]

InitNames ==
    /\ Init
    /\ schemaDefinition = SchemaIdDeclared

\* what an operation of the model of caller c leaves on record
Resolved(c, files, seen) ==
    [dbs EXCEPT !.path[c] = filePath(dbs.bound[c]),
                !.resolved[c] = resolveCollectionName(dbs.bound[c]),
                !.seen[c] = seen,
                !.files = files]

\* VunshDB.model(name, schema)
Model(c, name) ==
    /\ dbs.bound[c] = "-"
    /\ dbs' = [dbs EXCEPT !.bound[c] = name]
    /\ UNCHANGED <<crud, builtin, candidate, handles, wellFormed>>

\* create(data) through the model of caller c
NamedCreate(c) ==
    LET files == getDbFile(dbs.files, dbs.bound[c])
        db == files[filePath(dbs.bound[c])]
        newData == With(applyDefaults(NamedInput(c), schemaDefinition, 0), "save", SaveFn)
    IN  /\ dbs.bound[c] # "-"
        /\ Len(db) < MaxDocs
        /\ dbs' = Resolved(c, (filePath(dbs.bound[c]) :> Append(db, Serialize(newData))) @@ files,
                           dbs.seen[c])
        /\ UNCHANGED <<crud, builtin, candidate, handles, wellFormed>>

\* findMany({}) through the model of caller c
NamedFindMany(c) ==
    LET files == getDbFile(dbs.files, dbs.bound[c])
    IN  /\ dbs.bound[c] # "-"
        /\ dbs' = Resolved(c, files, files[filePath(dbs.bound[c])])
        /\ UNCHANGED <<crud, builtin, candidate, handles, wellFormed>>

\* wipe() through the model of caller c
NamedWipe(c) ==
    LET files == getDbFile(dbs.files, dbs.bound[c])
    IN  /\ dbs.bound[c] # "-"
        /\ dbs' = Resolved(c, (filePath(dbs.bound[c]) :> << >>) @@ files, dbs.seen[c])
        /\ UNCHANGED <<crud, builtin, candidate, handles, wellFormed>>

NextNames ==
    \/ \E c \in Callers, name \in Names : Model(c, name)
    \/ \E c \in Callers : NamedCreate(c)
    \/ \E c \in Callers : NamedFindMany(c)
    \/ \E c \in Callers : NamedWipe(c)

SpecNames == InitNames /\ [][NextNames]_vars

\* ------------------------------------------- a file that does not parse
\* Somebody overwrites the collection file with text that is not JSON.  While
\* it does not parse, `file` holds no documents.

\* JSON.parse never throwing
ParseNeverThrows == FALSE

\* JSON.parse(fs.readFileSync(filePath)) throws
ParseThrows == fileExists /\ ~wellFormed.now

\* the operation rejects where it parses the file, before it does anything
Rejected(name, criteria, data) ==
    /\ last' = [Op(name, criteria, data, readDb) EXCEPT !.threw = TRUE]
    /\ created' = NoDoc
    /\ flow' = Idle
    /\ UNCHANGED <<schemaDefinition, fileExists, file>>

\* an operation that parses the file: the action A when the content parses
OnContent(name, criteria, data, A) ==
    /\ IF ParseThrows THEN Rejected(name, criteria, data) ELSE A
    /\ wellFormed' = [now |-> wellFormed.now, before |-> wellFormed.now]
    /\ UNCHANGED <<held, calls, builtin, candidate, dbs, handles>>

\* wipe() writes "[]" and reads nothing
WipeAnyContent ==
    /\ Wipe
    /\ wellFormed' = [now |-> TRUE, before |-> wellFormed.now]
    /\ UNCHANGED <<held, calls, builtin, candidate, dbs, handles>>

\* the file is overwritten from outside with text that is not JSON
Corrupt ==
    /\ wellFormed.now
    /\ fileExists' = TRUE
    /\ file' = << >>
    /\ wellFormed' = [now |-> FALSE, before |-> TRUE]
    /\ last' = Op("corrupt", NoCriteria, NoDoc, readDb)
    /\ created' = NoDoc
    /\ flow' = Idle
    /\ UNCHANGED <<schemaDefinition, held, calls, builtin, candidate, dbs, handles>>

\* the document a caller saves
Jane == [_id |-> "custom", username |-> "Jane", age |-> "n26"]

NextCorrupt ==
    \/ \E data \in CreateInputs : OnContent("create", NoCriteria, data, Create(data))
    \/ OnContent("findOne", ByName, NoDoc, FindOne(ByName))
    \/ \E id \in FindIds :
        OnContent("findById", FieldMap([_id |-> id]), NoDoc, FindById(id))
    \/ OnContent("findMany", ByName, NoDoc, FindMany(ByName))
    \/ OnContent("deleteOne", ByName, NoDoc, DeleteOne(ByName))
    \/ OnContent("deleteMany", ByName, NoDoc, DeleteMany(ByName))
    \/ OnContent("save", NoCriteria, Jane, ModelSave(Jane))
    \/ WipeAnyContent
    \/ Corrupt

SpecCorrupt == Init /\ [][NextCorrupt]_vars

\* ------------------------------------------------ two callers with handles
\* Each caller holds the document an operation returned to it (`handles.of`),
\* changes it in memory and invokes its save.  On record: the document as it
\* was returned (`handles.base`) and the callers that have saved since the
\* last document was handed out, in the order of their saves (`handles.saved`).

\* the assignments the callers make
HandleEdits == {<<"age", "n26">>, <<"username", "Jane">>}

InitHandles ==
    /\ Init
    /\ schemaDefinition = SchemaIdDeclared

Handed(c, doc) ==
    IF doc = NoDoc THEN handles
    ELSE [of |-> [handles.of EXCEPT ![c] = doc],
          base |-> [handles.base EXCEPT ![c] = doc],
          saved |-> << >>]

\* h = await create(data), kept by caller c
HandleCreate(c, data) ==
    /\ Create(data)
    /\ handles' = Handed(c, last'.doc)
    /\ UNCHANGED <<held, calls, builtin, candidate, dbs, wellFormed>>

\* h = await findOne(criteria), kept by caller c
HandleFindOne(c, criteria) ==
    /\ FindOne(criteria)
    /\ handles' = Handed(c, last'.doc)
    /\ UNCHANGED <<held, calls, builtin, candidate, dbs, wellFormed>>

\* h[field] = value
HandleAssign(c, field, value) ==
    /\ handles.of[c] # NoDoc
    /\ handles.saved = << >>
    /\ handles' = [handles EXCEPT !.of[c] = With(handles.of[c], field, value)]
    /\ last' = Op("edit", NoCriteria, handles.of[c], readDb)
    /\ created' = NoDoc
    /\ flow' = Idle
    /\ UNCHANGED <<schemaDefinition, fileExists, file, held, calls, builtin, candidate, dbs,
                   wellFormed>>

\* await h.save(): the closure calls model.save on the document itself
HandleSave(c) ==
    /\ handles.of[c] # NoDoc
    /\ \A i \in 1..Len(handles.saved) : handles.saved[i] # c
    /\ SaveBody("handle.save", handles.of[c], Idle)
    /\ handles' = [handles EXCEPT !.saved = Append(handles.saved, c)]
    /\ UNCHANGED <<held, calls, builtin, candidate, dbs, wellFormed>>

NextHandles ==
    \/ \E c \in Callers : HandleCreate(c, [username |-> "JohnDoe", age |-> "n25"])
    \/ \E c \in Callers : HandleFindOne(c, ByName)
    \/ \E c \in Callers, e \in HandleEdits : HandleAssign(c, e[1], e[2])
    \/ \E c \in Callers : HandleSave(c)

SpecHandles == InitHandles /\ [][NextHandles]_vars

\* ------------------------------------------------------------- properties
\* the declared data fields of a document, whatever else it carries
Project(doc) == [k \in {"username", "age"} |-> Get(doc, k)]

\* the positions of db whose document the field map m selects
MapHits(db, m) == {i \in 1..Len(db) : \A k \in DOMAIN m : Get(db[i], k) = m[k]}

\* the positions of db for which the caller's function returns true
CallHits(db, criteria) == {i \in 1..Len(db) : Call(criteria, db[i])}

\* db without its position i
Except(db, i) == SubSeq(db, 1, i - 1) \o SubSeq(db, i + 1, Len(db))

Min(S) == CHOOSE i \in S : \A j \in S : i <= j

\* C1: with a schema that does not declare `_id`, after create(d) into an empty
\* collection, h = findOne(field map matching d), a change of a field of h and
\* h.save(), the same findOne returns the changed value and the collection
\* holds exactly one document.
C1_EditFlowPersists ==
    (flow.stage = 5 /\ flow.fresh /\ "_id" \notin DOMAIN schemaDefinition)
        => /\ last.doc # NoDoc
           /\ Get(last.doc, flow.field) = flow.value
           /\ Len(file) = 1

\* C2: r = create(doc) followed by findById(r._id) returns a document that is
\* not null and has the fields of r, the same `_id` included.
C2_CreateFindByIdRoundTrip ==
    (/\ last.op = "findById"
     /\ created # NoDoc
     /\ last.criteria = FieldMap([_id |-> Get(created, "_id")]))
        => /\ last.doc # NoDoc
           /\ Without(last.doc, "save") = Without(created, "save")

\* C3: with a schema that sets `_id: false`, saving a document obtained with
\* findOne and modified in memory updates the stored document: the number of
\* documents is unchanged and no stored document gains an `_id`.
C3_EditFlowIdDisabled ==
    (flow.stage = 4 /\ schemaDefinition = SchemaIdFalse)
        => /\ Len(file) = flow.n
           /\ \A i \in 1..Len(file) : "_id" \notin DOMAIN file[i]
           /\ \E i \in 1..Len(file) : Project(file[i]) = Project(held)

\* C4: with a caller-supplied boolean function, findMany returns exactly the
\* stored documents for which the function returns true, in storage order, and
\* findOne returns the first of them, or null when there is none.
C4_FindWithFunction ==
    /\ (last.op = "findMany" /\ last.criteria.kind = "function")
        => [i \in 1..Len(last.docs) |-> Project(last.docs[i])]
           = [i \in 1..Cardinality(CallHits(last.pre, last.criteria)) |->
                Project(filterAt(last.pre, CallHits(last.pre, last.criteria), 1)[i])]
    /\ (last.op = "findOne" /\ last.criteria.kind = "function")
        => IF CallHits(last.pre, last.criteria) = {} THEN last.doc = NoDoc
           ELSE /\ last.doc # NoDoc
                /\ Project(last.doc)
                   = Project(last.pre[Min(CallHits(last.pre, last.criteria))])

\* C5: with a caller-supplied boolean function, deleteOne and deleteMany remove
\* only documents for which the function returns true: every stored document
\* for which it returns false is still in the collection afterwards.
C5_DeleteWithFunction ==
    (last.op \in {"deleteOne", "deleteMany"} /\ last.criteria.kind = "function")
        => filterAt(file, (1..Len(file)) \ CallHits(file, last.criteria), 1)
           = filterAt(last.pre, (1..Len(last.pre)) \ CallHits(last.pre, last.criteria), 1)

\* C6: model.save(doc) with the `_id` of a stored document replaces that
\* document at its position and leaves the others and their order unchanged;
\* with an `_id` no stored document has it appends doc at the end and leaves
\* the existing documents unchanged; it returns doc.
C6_SaveUpsert ==
    (last.op = "save" /\ ~last.threw)
        => LET pre == last.pre
               hits == {i \in 1..Len(pre) : Get(pre[i], "_id") = Get(last.data, "_id")}
           IN  /\ last.doc = last.data
               /\ IF hits = {}
                  THEN /\ Len(file) = Len(pre) + 1
                       /\ \A i \in 1..Len(pre) : file[i] = pre[i]
                       /\ file[Len(file)] = Serialize(last.data)
                  ELSE /\ Len(file) = Len(pre)
                       /\ \E i \in hits :
                            /\ file[i] = Serialize(last.data)
                            /\ \A j \in (1..Len(pre)) \ {i} : file[j] = pre[j]

\* a save that replaced a stored document which is not the first one
C6_Witness ==
    /\ last.op = "save" /\ ~last.threw
    /\ Len(last.pre) >= 2
    /\ Get(last.pre[1], "_id") # Get(last.data, "_id")
    /\ \E i \in 2..Len(last.pre) : Get(last.pre[i], "_id") = Get(last.data, "_id")
    /\ file # last.pre

\* C7 as stated: model.save(doc) fails whenever doc carries a field other than
\* `_id` that the schema's top level does not declare, and the file content is
\* then what it was.
C7_SaveRejectsEveryUndeclared ==
    (/\ last.op = "save"
     /\ \E key \in DOMAIN last.data \ {"_id"} : key \notin DOMAIN schemaDefinition)
        => last.threw /\ file = last.pre

\* C7 as amended: model.save(doc) fails whenever doc carries a field other than
\* `_id` and `__originalId` whose value is not a function and which the
\* schema's top level does not declare, and the file content is then what it was.
C7_SaveRejectsUndeclared ==
    (/\ last.op = "save"
     /\ \E key \in DOMAIN last.data \ {"_id", "__originalId"} :
            /\ typeOf(last.data[key]) # "function"
            /\ key \notin DOMAIN schemaDefinition)
        => last.threw /\ fileExists /\ file = last.pre

\* a save rejected for an undeclared field while the collection holds documents
C7_Witness ==
    /\ last.op = "save" /\ last.threw
    /\ "nickname" \in DOMAIN last.data
    /\ last.pre # << >>
    /\ file = last.pre

\* C8: deleteOne with a field map removes exactly the first matching document
\* in storage order, keeps every other document (later matches included) in
\* order and returns true; when nothing matches it returns false and the
\* collection is unchanged.
C8_DeleteOneFirstMatch ==
    (last.op = "deleteOne" /\ last.criteria.kind = "map")
        => LET hits == MapHits(last.pre, last.criteria.map)
           IN  IF hits = {} THEN ~last.flag /\ file = last.pre
               ELSE last.flag /\ file = Except(last.pre, Min(hits))

\* a deleteOne that had two matches to choose from, and a document before them
C8_Witness ==
    /\ last.op = "deleteOne" /\ last.criteria.kind = "map" /\ last.flag
    /\ Cardinality(MapHits(last.pre, last.criteria.map)) >= 2
    /\ 1 \notin MapHits(last.pre, last.criteria.map)
    /\ MapHits(file, last.criteria.map) # {}

\* C9: deleteMany with a field map removes every matching document, keeps the
\* others in their order and returns the number removed; when nothing matches
\* it returns 0 and the stored sequence is unchanged.
C9_DeleteManyAllMatches ==
    (last.op = "deleteMany" /\ last.criteria.kind = "map")
        => LET hits == MapHits(last.pre, last.criteria.map)
           IN  /\ file = filterAt(last.pre, (1..Len(last.pre)) \ hits, 1)
               /\ last.count = Cardinality(hits)
               /\ hits = {} => (last.count = 0 /\ file = last.pre)

\* a deleteMany that removed two documents and kept another
C9_Witness ==
    /\ last.op = "deleteMany" /\ last.criteria.kind = "map"
    /\ last.count = 2
    /\ Len(file) = 1

\* C10: wipe() returns true and leaves the collection file holding exactly an
\* empty array, whatever it held; a find on that content returns an empty
\* sequence (findMany) and null (findOne).
C10_WipeEmpties ==
    /\ last.op = "wipe" => (last.flag /\ fileExists /\ file = << >>)
    /\ (last.op = "findMany" /\ last.pre = << >>) => last.docs = << >>
    /\ (last.op \in {"findOne", "findById"} /\ last.pre = << >>) => last.doc = NoDoc

\* a wipe of a collection that held documents
C10_Witness ==
    /\ last.op = "wipe"
    /\ Len(last.pre) >= 2
    /\ file = << >>

\* the primitive type a declaration names, and the typeof of its values
DeclaredType(fieldDefinition) ==
    IF fieldDefinition.kind = "marker" THEN fieldDefinition.value
    ELSE IF fieldDefinition.kind = "descriptor" THEN fieldDefinition.type
    ELSE Undefined

TypeName(ctor) ==
    IF ctor = StringCtor THEN "string"
    ELSE IF ctor = NumberCtor THEN "number"
    ELSE IF ctor = BooleanCtor THEN "boolean"
    ELSE "other"

\* the document has, outside `_id`, a defined value of another primitive type
\* than its field declares
TypeMismatch(data, schema) ==
    \E field \in (DOMAIN data \cap DOMAIN schema) \ {"_id"} :
        /\ TypeName(DeclaredType(schema[field])) # "other"
        /\ typeOf(data[field]) \in {"string", "number", "boolean"}
        /\ typeOf(data[field]) # TypeName(DeclaredType(schema[field]))

\* the document has a field, other than `_id` and the integer-like keys, that
\* the declaration at its path lacks: at the top level, or in the object given
\* for a nested schema
Undeclared(data, schema) ==
    \E field \in DOMAIN data \ ({"_id"} \cup NumericKeys) :
        \/ field \notin DOMAIN schema
        \/ /\ schema[field].kind = "nested"
           /\ data[field] \in ObjectValues
           /\ \E inner \in DOMAIN OwnFields(data[field]) \ ({"_id"} \cup NumericKeys) :
                inner \notin DOMAIN schema[field].fields

\* a field marked required is absent from the document
RequiredAbsent(data, schema) ==
    \E field \in DOMAIN schema :
        schema[field].required = True /\ Get(data, field) = Undefined

\* every field of the document is declared (or is `_id`) and none holds an object
Plain(data, schema) ==
    \A field \in DOMAIN data :
        /\ field \in DOMAIN schema \cup {"_id"}
        /\ data[field] \notin ObjectValues

\* C11: Schema.validate fails when the document holds a value whose runtime
\* type does not match the primitive type its field declares (a number in a
\* field declared String, a string in a field declared Number).
C11_ValidateRejectsTypeMismatch ==
    (last.op = "validate" /\ TypeMismatch(last.data, schemaDefinition)) => last.threw

C13_RequiredNotEnforced ==
    /\ (/\ last.op = "validate"
        /\ RequiredAbsent(last.data, schemaDefinition)
        /\ Plain(last.data, schemaDefinition))
        => ~last.threw
    /\ (/\ last.op = "create"
        /\ RequiredAbsent(last.data, schemaDefinition)
        /\ Plain(last.data, schemaDefinition))
        => /\ ~last.threw
           /\ last.doc # NoDoc
           /\ Len(file) = Len(last.pre) + 1
           /\ file[Len(file)] = Serialize(last.doc)

\* a create that left the required field out and stored a document
C13_Witness ==
    /\ last.op = "create" /\ ~last.threw
    /\ schemaDefinition = SchemaRequired
    /\ "age" \notin DOMAIN last.data
    /\ Len(file) = Len(last.pre) + 1
    /\ Get(file[Len(file)], "username") = "JohnDoe"

\* the document has an `_id` that is not undefined
HasId(doc) == "_id" \in DOMAIN doc /\ doc["_id"] # Undefined

\* the schema sets `_id: false`
IdDisabled(schema) == "_id" \in DOMAIN schema /\ schema["_id"] = Literal(False)

\* C14: create's identifier handling: with a schema that declares no `_id` the
\* created document gets a generated identifier; with `_id: false` the created
\* and the persisted document have no `_id`; with a schema that declares `_id`
\* the created and the persisted document have an identifier, whatever the
\* caller passed for `_id`.
C14_CreateIdentifier ==
    (last.op = "create" /\ ~last.threw)
        => LET stored == file[Len(file)]
           IN  IF "_id" \notin DOMAIN schemaDefinition
               THEN /\ Get(last.doc, "_id") \in PoolIds
                    /\ Get(stored, "_id") = Get(last.doc, "_id")
               ELSE IF IdDisabled(schemaDefinition)
               THEN "_id" \notin DOMAIN last.doc /\ "_id" \notin DOMAIN stored
               ELSE HasId(last.doc) /\ HasId(stored)

\* C15: a custom `_id` the caller passes to create is the `_id` of the created
\* and of the persisted document, for any schema that does not disable `_id`.
C15_CustomIdKept ==
    (/\ last.op = "create" /\ ~last.threw
     /\ HasId(last.data)
     /\ ~IdDisabled(schemaDefinition))
        => /\ Get(last.doc, "_id") = last.data["_id"]
           /\ Get(file[Len(file)], "_id") = last.data["_id"]

\* C16: after any sequence of successful create, save, deleteOne, deleteMany
\* and wipe, no two stored documents have the same `_id` value.
C16_UniqueIds ==
    \A i, j \in 1..Len(file) :
        (i # j /\ HasId(file[i]) /\ HasId(file[j])) => file[i]["_id"] # file[j]["_id"]

\* C17: with a schema that does not set `_id: false`, after any sequence of
\* create, findOne followed by the returned document's save(), and delete,
\* every stored document has an `_id`.
C17_StoredDocumentsHaveId ==
    ~IdDisabled(schemaDefinition) => \A i \in 1..Len(file) : HasId(file[i])

\* C18: when validation fails inside create, create fails and the stored
\* sequence of documents is what it was before the call.
C18_FailedCreateWritesNothing ==
    (last.op = "create" /\ last.threw)
        => /\ file = last.pre
           /\ last.doc = NoDoc

\* a create rejected for an undeclared nested field, on a collection with documents
C18_Witness ==
    /\ last.op = "create" /\ last.threw
    /\ Get(last.data, "tag") = TagExtra
    /\ last.pre # << >>
    /\ file = last.pre

\* C20: the document create returns has, apart from the attached save, exactly
\* the fields and values of the document create persisted as the last element,
\* also when the caller did not supply every declared field.
C20_ReturnedEqualsPersisted ==
    (last.op = "create" /\ ~last.threw)
        => Without(last.doc, "save") = file[Len(file)]

\* the callers whose create has returned a document
Completed == {c \in Callers : calls[c].pc = "done" /\ ~calls[c].threw}

\* C19 as stated: concurrent create calls of one process interleave so that one
\* side's update is lost: two calls that ran concurrently and both completed
\* leave only one of the two new documents in the collection.
C19_ConcurrentCreatesLoseOne ==
    (Completed = Callers /\ \E c \in Callers : calls[c].overlap)
        => Len(file) = 1

\* C19 as amended: concurrent create calls of one process lose no update: the
\* collection holds the document of every call that has completed, one per call.
C19_NoLostUpdate ==
    /\ \A c \in Completed : \E i \in 1..Len(file) : file[i] = Serialize(calls[c].result)
    /\ Len(file) = Cardinality(Completed)

\* two create calls have both completed, and one read and wrote the file while
\* the other was suspended at its last await, about to read it
C19_Witness ==
    /\ Completed = Callers
    /\ \E c \in Callers : calls[c].raced
    /\ Len(file) = 2

\* the document gives every declared field a value that is not undefined
Complete(data, schema) == \A field \in DOMAIN schema : Get(data, field) # Undefined

\* C21: default-fill idempotence: for every schema and every document d that
\* defines every field of the schema, applyDefaults(applyDefaults(d)) has the
\* fields and values of applyDefaults(d), `_id` included.
C21_DefaultsIdempotent ==
    (last.op = "applyDefaults" /\ Complete(last.data, schemaDefinition))
        => last.docs[2] = last.docs[1]

\* r is the stored document doc default-filled: it has the declared fields,
\* each but `_id` with the stored value, or with the declaration's default
\* where the stored document has none (the schemas of Init declare no nested
\* schema)
DefaultFilled(r, doc) ==
    /\ DOMAIN schemaDefinition \ {"_id"} \subseteq DOMAIN r
    /\ DOMAIN r \subseteq DOMAIN schemaDefinition \cup {"_id", "save"}
    /\ \A field \in DOMAIN schemaDefinition \ {"_id"} :
            r[field] = IF Get(doc, field) # Undefined THEN doc[field]
                       ELSE DefaultFor(schemaDefinition[field], 0)

\* the i-th element of the set of positions S, in increasing order
Nth(S, i) == CHOOSE p \in S : Cardinality({q \in S : q < p}) = i - 1

\* C22: findMany with a field map returns all stored documents whose fields
\* equal every entry of the map, in storage order, each default-filled and
\* without a save; findOne returns the first of them with a save attached, or
\* null when none matches; findById(id) returns what findOne({_id: id}) returns.
C22_FindWithFieldMap ==
    /\ (last.op = "findMany" /\ last.criteria.kind = "map")
        => LET hits == MapHits(last.pre, last.criteria.map)
           IN  /\ Len(last.docs) = Cardinality(hits)
               /\ \A i \in 1..Len(last.docs) :
                    /\ DefaultFilled(last.docs[i], last.pre[Nth(hits, i)])
                    /\ "save" \notin DOMAIN last.docs[i]
    /\ (last.op \in {"findOne", "findById"} /\ last.criteria.kind = "map")
        => LET hits == MapHits(last.pre, last.criteria.map)
           IN  IF hits = {} THEN last.doc = NoDoc
               ELSE /\ last.doc # NoDoc
                    /\ DefaultFilled(last.doc, last.pre[Min(hits)])
                    /\ Get(last.doc, "save") = SaveFn
    /\ last.op = "findById" => DOMAIN last.criteria.map = {"_id"}

\* a findMany that returned two documents out of three, the first stored
\* document not among them, and filled a default in
C22_Witness ==
    /\ last.op = "findMany" /\ last.criteria.kind = "map"
    /\ Len(last.pre) = 3
    /\ MapHits(last.pre, last.criteria.map) = {2, 3}
    /\ Len(last.docs) = 2
    /\ \E i \in 2..3 : "age" \notin DOMAIN last.pre[i]

\* the callers that have invoked an operation, and those of them whose
\* updateInteractions has returned
Invoked == {c \in Callers : ops[c].state # "idle"}
Booked == {c \in Invoked : ops[c].books = 0 /\ ~ops[c].failed}

\* the settings say that interactions are counted
CountingOn == cltns.vdbs.state = "ok" /\ cltns.vdbs.interactioncount

\* C23: with interaction counting enabled, each invocation of a model
\* operation, once its bookkeeping has finished, has increased the
\* current-session counter and the cumulative counter by exactly one each.
\* The increase is that between the invocation and the end of its bookkeeping,
\* for an invocation whose bookkeeping no other invocation's overlaps.
C23_InvocationCountsOnce ==
    \A c \in Booked :
        (/\ CountingOn
         /\ ops[c].alone
         /\ ops[c].before.ti.state = "ok"
         /\ ops[c].before.ci.state = "ok")
            => /\ ops[c].after.ti = Counter(ops[c].before.ti.value + 1)
               /\ ops[c].after.ci = Counter(ops[c].before.ci.value + 1)

\* a findById, which calls updateInteractions twice, counted once, and an
\* operation invoked after it counted once more
C23_Witness ==
    \E c \in Booked, d \in Booked :
        /\ c # d
        /\ CountingOn
        /\ ops[c].alone /\ ops[d].alone
        /\ ops[c].inv.name = "findById"
        /\ ops[c].before = Counters(proc.start)
        /\ ops[c].after.ti = Counter(proc.start.ti.value + 1)
        /\ ops[d].before = ops[c].after
        /\ ops[d].after.ti = Counter(proc.start.ti.value + 2)
        /\ ops[d].after.ci = Counter(proc.start.ci.value + 2)

\* C24: with interaction counting enabled, when N model operations are issued
\* concurrently, the cumulative counter has increased by N once all of them
\* and their bookkeeping have finished: no increment is lost.
C24_ConcurrentInvocationsCounted ==
    (/\ CountingOn
     /\ Invoked # {}
     /\ Booked = Invoked
     /\ \A c \in Invoked : ops[c].state = "done" /\ ~ops[c].alone
     /\ queue = << >>
     /\ proc.start.ti.state = "ok")
        => cltns.ti = Counter(proc.start.ti.value + Cardinality(Invoked))

\* C25: when the settings flag $interactioncount is false, no model operation
\* changes the current-session or the cumulative interaction counter.
C25_CountingOffLeavesCounters ==
    (cltns.vdbs.state = "ok" /\ ~cltns.vdbs.interactioncount)
        => Counters(cltns) = Counters(proc.start)

\* two operations have run to their end with counting switched off, one of
\* which wrote the collection file
C25_Witness ==
    /\ cltns.vdbs.state = "ok" /\ ~cltns.vdbs.interactioncount
    /\ Booked = Callers
    /\ \A c \in Callers : ops[c].state = "done"
    /\ \E c \in Callers : ops[c].inv.name = "create" /\ ops[c].post # << >>
    /\ cltns.ti = Counter(1)

\* the result and the effect an operation has when nothing fails: o.rec is
\* what it returned, o.rec.pre what it read and o.post what the file held
\* when it returned
Normal(o) ==
    LET r == o.rec
        pre == r.pre
        name == o.inv.name
        hits == MapHits(pre, o.inv.criteria.map)
    IN  /\ ~r.threw
        /\ r.op = name
        /\ name = "create" => (r.doc # NoDoc /\ o.post = Append(pre, Serialize(r.doc)))
        /\ name = "wipe" => (r.flag /\ o.post = << >>)
        /\ name \in {"findOne", "findById"}
            => (o.post = pre /\ ((r.doc = NoDoc) <=> (hits = {})))
        /\ name = "findMany" => (o.post = pre /\ Len(r.docs) = Cardinality(hits))
        /\ name = "deleteOne"
            => IF hits = {} THEN ~r.flag /\ o.post = pre
               ELSE r.flag /\ o.post = Except(pre, Min(hits))
        /\ name = "deleteMany"
            => (/\ r.count = Cardinality(hits)
                /\ o.post = filterAt(pre, (1..Len(pre)) \ hits, 1))
        /\ name = "save"
            => (/\ r.doc = o.inv.data
                /\ Len(o.post) \in {Len(pre), Len(pre) + 1}
                /\ \E i \in 1..Len(o.post) : o.post[i] = Serialize(o.inv.data))

\* C26: if the built-in settings or counter collections are missing or
\* unreadable, a model operation still performs its primary effect and returns
\* its normal result: the failure of the bookkeeping neither blocks the
\* operation nor makes it fail.
C26_BookkeepingFailureLeavesOperation ==
    \A c \in Invoked :
        ops[c].failed
            => /\ ops[c].state = "done" => Normal(ops[c])
               /\ (queue = << >> \/ proc.state = "terminated") => ops[c].state = "done"

\* a create whose bookkeeping found the cumulative counter missing, and which
\* stored its document and returned it
C26_Witness ==
    \E c \in Invoked :
        /\ ops[c].failed
        /\ proc.start.ti.state = "missing"
        /\ ops[c].state = "done"
        /\ ops[c].inv.name = "create"
        /\ ops[c].rec.doc # NoDoc
        /\ Len(ops[c].post) = Len(ops[c].rec.pre) + 1

\* the collection file exists and holds its required key or keys
HasKeys(collection) == collection.state \in {"ok", "null"}

\* C27: every successful connect(options) leaves all four built-in
\* collections existing with their required keys, sets the settings collection
\* to the given options (true for an option left out), resets the runtime
\* counter and the current-session interaction counter to 0, and leaves a
\* previously valid cumulative interaction counter at its prior value.
C27_ConnectSetsUp ==
    timer.step = "connect"
        => /\ \A name \in DOMAIN cltns : HasKeys(cltns[name])
           /\ cltns.vdbs.runtime = (timer.options.runtime # False)
           /\ cltns.vdbs.interactioncount = (timer.options.interactioncount # False)
           /\ cltns.rt = Counter(0)
           /\ cltns.ci = Counter(0)
           /\ HasKeys(timer.before.ti) => cltns.ti = timer.before.ti

\* a connect with $runtime: false on an installation used before: it has
\* reset the two counters and kept the cumulative one
C27_Witness ==
    /\ timer.step = "connect"
    /\ timer.options.runtime = False
    /\ timer.before.ci = Counter(3)
    /\ timer.before.ti = Counter(4)
    /\ cltns = Cltns(Settings(FALSE, TRUE), Counter(4), Counter(0), Counter(0))

\* C28: the runtime counter is the time since the most recent connect: each
\* connect resets it to 0 and, when $runtime is enabled, it thereafter
\* increases by exactly 1 per elapsed second, also when connect has been called
\* more than once in the process.  (Stated for the moments at which whole
\* seconds have passed, and while nobody else has written the collection.)
C28_RuntimeIsTimeSinceConnect ==
    /\ timer.step = "connect" => cltns.rt = Counter(0)
    /\ (timer.step = "second" /\ timer.enabled /\ timer.intact)
        => cltns.rt = Counter(timer.elapsed)

\* C29: if the runtime counter collection is deleted or corrupted while the
\* periodic task is running, the failing tick is reported and the task keeps
\* ticking: once the collection is readable again, a later tick increments it.
\* Every tick leaves its interval running; one that cannot read the collection
\* reports it and writes nothing, any other writes the counter plus one.
C29_FailingTickIsReported ==
    timer.step = "tick"
        => /\ timer.intervals = timer.was.intervals
           /\ IF getCollectionThrows(timer.before.rt)
              THEN /\ cltns.rt = timer.before.rt
                   /\ timer.reported = timer.was.reported + 1
              ELSE /\ cltns.rt = Increment(timer.before.rt)
                   /\ timer.reported = timer.was.reported

\* a tick that incremented the counter after an earlier tick had failed and
\* the collection had been put back
C29_Witness ==
    /\ timer.step = "tick"
    /\ timer.reported > 0
    /\ timer.before.rt = Counter(0)
    /\ cltns.rt = Counter(1)
    /\ ~timer.intact

\* C30: a collection file is created lazily on first access: when the file
\* does not exist, any model operation creates it holding an empty sequence
\* before operating, so that findOne returns null, findMany an empty sequence,
\* deleteOne false and deleteMany 0 on a never-used collection; an existing
\* file is neither re-created nor emptied by this step.
C30_LazyCreation ==
    \A c \in Invoked :
        LET o == ops[c]
        IN  /\ fileExists
            /\ IF o.lazy.existed THEN o.lazy.after = o.lazy.before
               ELSE o.lazy.after = << >>
            /\ (~o.lazy.existed /\ o.state = "done" /\ o.rec.pre = << >>)
                => /\ ~o.rec.threw
                   /\ o.inv.name \in {"findOne", "findById"} => o.rec.doc = NoDoc
                   /\ o.inv.name = "findMany" => o.rec.docs = << >>
                   /\ o.inv.name = "deleteOne" => ~o.rec.flag
                   /\ o.inv.name = "deleteMany" => o.rec.count = 0
                   /\ o.inv.name \in {"findOne", "findById", "findMany", "deleteOne",
                                       "deleteMany"} => o.post = << >>

\* a deleteOne on a collection never used, which returned false, and a
\* findMany invoked after it, which found the file existing and returned an
\* empty sequence
C30_Witness ==
    \E c \in Invoked, d \in Invoked :
        /\ ~ops[c].lazy.existed
        /\ ops[c].state = "done"
        /\ ops[c].inv.name = "deleteOne"
        /\ ~ops[c].rec.flag
        /\ ops[d].lazy.existed
        /\ ops[d].state = "done"
        /\ ops[d].inv.name = "findMany"
        /\ ops[d].rec.docs = << >>

\* the fixed prefix, and the lengths of the groups that follow it
Prefix == <<"v", "d", "b", ":">>
GroupLengths == <<8, 4, 4, 4, 12>>

\* the position of the first character of the g-th group
RECURSIVE GroupStart(_)
GroupStart(g) ==
    IF g = 1 THEN Len(Prefix) + 1
    ELSE GroupStart(g - 1) + GroupLengths[g - 1] + 1

IsHex(c) ==
    toUpperCase(c) \in {"0", "1", "2", "3", "4", "5", "6", "7", "8", "9",
                        "A", "B", "C", "D", "E", "F"}

\* the prefix followed by 8-4-4-4-12 hexadecimal groups with `-` between them,
\* the third beginning with 4 and the fourth with one of 8, 9, a, b, letters
\* in either case
Shape(s) ==
    /\ Len(s) = GroupStart(Len(GroupLengths)) + GroupLengths[Len(GroupLengths)] - 1
    /\ \A i \in 1..Len(Prefix) : toUpperCase(s[i]) = toUpperCase(Prefix[i])
    /\ \A g \in 1..Len(GroupLengths) :
            \A i \in GroupStart(g)..(GroupStart(g) + GroupLengths[g] - 1) : IsHex(s[i])
    /\ \A g \in 2..Len(GroupLengths) : s[GroupStart(g) - 1] = "-"
    /\ s[GroupStart(3)] = "4"
    /\ toUpperCase(s[GroupStart(4)]) \in {"8", "9", "A", "B"}

\* C31: every identifier the generator produces satisfies the validator, and
\* the validator accepts a string exactly when it is the fixed prefix followed
\* by 8-4-4-4-12 hexadecimal groups with version nibble 4 and variant nibble
\* in {8, 9, a, b}, case-insensitively.
C31_GeneratedIsValid ==
    candidate.source # "none"
        => /\ candidate.source = "createUUID" => candidate.valid
           /\ candidate.valid <=> Shape(candidate.s)

\* an identifier whose variant nibble was put in upper case, and accepted
C31_Witness ==
    /\ candidate.source = "altered"
    /\ candidate.valid
    /\ candidate.s[GroupStart(4)] = "A"

\* the value a detailed descriptor gives a field the data does not define
DescriptorDefault(fieldDefinition) ==
    IF fieldDefinition.default # Undefined THEN fieldDefinition.default
    ELSE IF fieldDefinition.type = BooleanCtor THEN False
    ELSE IF fieldDefinition.type = StringCtor THEN EmptyString
    ELSE Null

UndeclaredKeys(data, schema) == DOMAIN data \ (DOMAIN schema \cup {"_id"})

\* C33: applyDefaults never copies a field that the declaration does not
\* mention, so create called with an undeclared top-level field (and no object
\* in a declared one) succeeds and neither the returned nor the persisted
\* document contains that field.
C33_CreateDropsUndeclared ==
    /\ last.op = "applyDefaults"
        => DOMAIN last.docs[1] \subseteq DOMAIN schemaDefinition \cup {"_id"}
    /\ (/\ last.op = "create"
        /\ UndeclaredKeys(last.data, schemaDefinition) # {}
        /\ \A field \in DOMAIN last.data \cap DOMAIN schemaDefinition :
                last.data[field] \notin ObjectValues)
        => /\ ~last.threw
           /\ Len(file) = Len(last.pre) + 1
           /\ \A key \in UndeclaredKeys(last.data, schemaDefinition) :
                key \notin DOMAIN last.doc /\ key \notin DOMAIN file[Len(file)]

\* a create given `nickname`, which no schema declares, has stored a document
\* next to another
C33_Witness ==
    /\ last.op = "create" /\ ~last.threw
    /\ "nickname" \in DOMAIN last.data
    /\ Len(file) = 2
    /\ Get(file[2], "username") = "JohnDoe"
    /\ "nickname" \notin DOMAIN file[2]

\* the value has the type the descriptor names
OfDescribedType(fieldDefinition, v) ==
    \/ fieldDefinition.type = StringCtor /\ typeOf(v) = "string"
    \/ fieldDefinition.type = BooleanCtor /\ typeOf(v) = "boolean"
    \/ fieldDefinition.type = NumberCtor /\ typeOf(v) = "number"
    \/ fieldDefinition.type = ObjectCtor /\ v \in ObjectValues

\* C34: validate recurses only into fields declared as a nested schema; a
\* field declared with a detailed descriptor is treated as a leaf: a document
\* whose fields are all declared by descriptors and hold values of the types
\* these name passes, whatever keys the object given for {type: Object} has.
C34_DescriptorIsLeaf ==
    (/\ last.op = "validate"
     /\ \A field \in DOMAIN last.data :
            /\ field \in DOMAIN schemaDefinition
            /\ schemaDefinition[field].kind = "descriptor"
            /\ OfDescribedType(schemaDefinition[field], last.data[field]))
        => ~last.threw

\* the aliases of the built-in collections and the names they stand for
Aliases ==
    [rt |-> "runtime", vdbs |-> "vdbsettings", ci |-> "cinteractions", ti |-> "tinteractions"]

\* the callers whose model has asked for its file
Asked == {c \in Callers : dbs.path[c] # "-"}

\* C35: name resolution maps the aliases rt, vdbs, ci, ti to runtime,
\* vdbsettings, cinteractions, tinteractions and returns every other name
\* unchanged; it is idempotent, and two models bound to an alias and to its
\* canonical name operate on the same collection file.
C35_NameResolution ==
    /\ \A c \in Asked :
        /\ dbs.resolved[c] = IF dbs.bound[c] \in DOMAIN Aliases THEN Aliases[dbs.bound[c]]
                             ELSE dbs.bound[c]
        /\ resolveCollectionName(dbs.resolved[c]) = dbs.resolved[c]
    /\ \A c \in Asked, d \in Asked :
        (dbs.bound[c] \in DOMAIN Aliases /\ dbs.bound[d] = Aliases[dbs.bound[c]])
            => dbs.path[c] = dbs.path[d]

\* C36: when the collection file content is not well-formed, create, findOne,
\* findById, findMany, deleteOne, deleteMany and save each fail and leave the
\* file content unchanged, while wipe succeeds and restores the file to an
\* empty sequence.
C36_CorruptFileRejects ==
    ~wellFormed.before
        => IF last.op = "wipe"
           THEN last.flag /\ ~last.threw /\ wellFormed.now /\ fileExists /\ file = << >>
           ELSE /\ last.op \in {"create", "findOne", "findById", "findMany", "deleteOne",
                               "deleteMany", "save"}
                /\ last.threw
                /\ last.doc = NoDoc /\ last.docs = << >>
                /\ ~wellFormed.now
                /\ file = last.pre

\* a deleteMany rejected on a file that does not parse
C36_Witness ==
    /\ ~wellFormed.before
    /\ ~wellFormed.now
    /\ last.op = "deleteMany"
    /\ last.threw

\* C37: findOne, findById and findMany never change the stored document
\* sequence of an existing collection: the collection content after the call
\* equals the content before it, whatever the predicate and the result.
C37_FindLeavesContent ==
    last.op \in {"findOne", "findById", "findMany"}
        => fileExists /\ file = last.pre

\* a findOne with a function for predicate has returned a document that
\* differs from the stored one, out of two, and the collection is as it was
C37_Witness ==
    /\ last.op = "findOne"
    /\ last.criteria.kind = "function"
    /\ Len(last.pre) = 2
    /\ last.doc # NoDoc
    /\ Serialize(last.doc) # last.pre[1]
    /\ file = last.pre

\* the fields caller c has changed in the document it holds
Changed(c) ==
    {f \in DOMAIN handles.of[c] : Get(handles.base[c], f) # handles.of[c][f]}

\* both callers were handed the same stored document, each has changed a
\* field the other has not, and both have saved
BothSaved ==
    /\ Len(handles.saved) = Cardinality(Callers)
    /\ handles.base["a"] = handles.base["b"]
    /\ HasId(handles.base["a"])
    /\ Changed("a") # {} /\ Changed("b") # {}
    /\ Changed("a") \cap Changed("b") = {}

\* C38: save writes the whole document held by the caller: when two handles
\* carrying the same `_id` are each modified in a different field and saved
\* one after the other, the stored document afterwards equals the second
\* handle's content and the first handle's change is lost.
C38_LastSaveWins ==
    BothSaved
        => LET first == handles.saved[1]
               second == handles.saved[2]
           IN  \E i \in 1..Len(file) :
                    /\ file[i] = Serialize(handles.of[second])
                    /\ \A f \in Changed(first) :
                        /\ file[i][f] = handles.base[first][f]
                        /\ file[i][f] # handles.of[first][f]

\* caller b, which changed the name, has saved after caller a, which changed
\* the age: the stored document has the new name and the old age
C38_Witness ==
    /\ BothSaved
    /\ handles.saved = <<"a", "b">>
    /\ Changed("a") = {"age"}
    /\ Changed("b") = {"username"}
    /\ Len(file) = 1
    /\ file[1].username = "Jane"
    /\ file[1].age = "n25"

\* the positions of the stored documents that have no `_id`
WithoutId(db) == {i \in 1..Len(db) : Get(db[i], "_id") = Undefined}

\* a save of a held document without `_id` has gone through
SavedWithoutId ==
    /\ last.op = "held.save"
    /\ ~last.threw
    /\ Get(last.data, "_id") = Undefined

\* what save does with a document that has no `_id`, by the lookup of line 370
ReplacesFirstWithoutId ==
    IF WithoutId(last.pre) = {}
    THEN file = Append(last.pre, Serialize(last.data))
    ELSE LET first == CHOOSE i \in WithoutId(last.pre) :
                          \A j \in WithoutId(last.pre) : i <= j
         IN  file = [last.pre EXCEPT ![first] = Serialize(last.data)]

C40_DisabledRuntimeStaysZero ==
    (timer.connects > 0 /\ ~timer.enabled /\ timer.intact)
        => cltns.rt = Counter(0)

====
